---- MODULE Spec2Model ----
(***************************************************************************)
(* A model of the immediate-mode GUI runtime of pix-engine: the widget     *)
(* calls of src/gui/widgets/slider.rs, src/gui/scroll.rs, src/gui/list.rs  *)
(* and src/core/window.rs over the interaction state store, the per-frame  *)
(* input state (src/gui/keys.rs, src/core/state.rs) and the style and      *)
(* cursor stacks.                                                          *)
(***************************************************************************)
EXTENDS Integers, Sequences, FiniteSets, TLC

(***************************************************************************)
(* Bounds of the model.                                                    *)
(***************************************************************************)
\* Width in pixels of a slider or drag track.
TrackW == 4
\* Longest text-edit buffer the text field lets the user type into.
MaxBuf == 3
\* Deepest nesting of with_window calls.
MaxNest == 2
\* Number of items of the select list.
NItems == 4
\* Pixels by which the list viewport exceeds a whole number of rows.
ViewSlack == 1

None == "None"

(***************************************************************************)
(* Small arithmetic helpers: Rust's clamp, min, max and `as` truncation.   *)
(***************************************************************************)
Min(a, b) == IF a < b THEN a ELSE b
Max(a, b) == IF a > b THEN a ELSE b
\* num_traits::clamp / Ord::clamp
Clamp(v, lo, hi) == IF v < lo THEN lo ELSE IF v > hi THEN hi ELSE v
\* Rust integer division and float-to-int casts round toward zero.
TruncDiv(a, b) ==
    IF (a >= 0) = (b > 0) \/ a = 0
      THEN (IF a >= 0 THEN a ELSE -a) \div (IF b >= 0 THEN b ELSE -b)
      ELSE -((IF a >= 0 THEN a ELSE -a) \div (IF b >= 0 THEN b ELSE -b))

(***************************************************************************)
(* Rectangles: [x, y, w, h] with right = x + w and bottom = y + h.         *)
(***************************************************************************)
Rect(x, y, w, h) == [x |-> x, y |-> y, w |-> w, h |-> h]
Right(r) == r.x + r.w
Bottom(r) == r.y + r.h
ContainsPoint(r, p) ==
    /\ p[1] >= r.x /\ p[1] < Right(r)
    /\ p[2] >= r.y /\ p[2] < Bottom(r)

(***************************************************************************)
(* Labels are strings, modelled as sequences of characters.                *)
(***************************************************************************)
Hash == "#"

\* str::split('#').next(): the text before the first '#' character.
RECURSIVE SplitFirst(_)
SplitFirst(label) ==
    IF label = <<>> \/ Head(label) = Hash THEN <<>>
    ELSE <<Head(label)>> \o SplitFirst(Tail(label))

\* The text before the first "##" marker (the documented visible part).
RECURSIVE BeforeMarker(_)
BeforeMarker(label) ==
    IF label = <<>> THEN <<>>
    ELSE IF Len(label) >= 2 /\ label[1] = Hash /\ label[2] = Hash THEN <<>>
    ELSE <<Head(label)>> \o BeforeMarker(Tail(label))

(***************************************************************************)
(* The bound value of a slider or drag widget has a numeric type T.  An    *)
(* i32 is an integer; an f64 is a fixed-point number in units of 1/Den,    *)
(* fine enough to hold every value a buffer of MaxBuf characters spells.   *)
(***************************************************************************)
RECURSIVE Pow10(_)
Pow10(n) == IF n = 0 THEN 1 ELSE 10 * Pow10(n - 1)
Den == Pow10(MaxBuf)

Digits == <<"0", "1", "2", "3", "4", "5", "6", "7", "8", "9">>
DigitSet == {Digits[i] : i \in 1..10}
DigitVal(c) == (CHOOSE i \in 1..10 : Digits[i] = c) - 1
Abs(n) == IF n < 0 THEN -n ELSE n

\* Decimal digits of a natural number, most significant first.
RECURSIVE NatDigits(_)
NatDigits(n) ==
    IF n < 10 THEN <<Digits[n + 1]>>
    ELSE NatDigits(n \div 10) \o <<Digits[(n % 10) + 1]>>

\* The k fractional digits of fp / 10^k without trailing zeros.
RECURSIVE FracDigits(_, _)
FracDigits(fp, k) ==
    IF fp = 0 \/ k = 0 THEN <<>>
    ELSE <<Digits[(fp \div Pow10(k - 1)) + 1]>> \o FracDigits(fp % Pow10(k - 1), k - 1)

\* T::to_string (fmt::Display): "-3", "0.75", "1".
to_string(ty, v) ==
    LET sign == IF v < 0 THEN <<"-">> ELSE <<>>
    IN IF ty = "f64"
         THEN LET fr == FracDigits(Abs(v) % Den, MaxBuf)
              IN sign \o NatDigits(Abs(v) \div Den)
                      \o (IF fr = <<>> THEN <<>> ELSE <<".">> \o fr)
         ELSE sign \o NatDigits(Abs(v))

\* Value of a sequence of digits read as a natural number.
RECURSIVE DigitsValue(_)
DigitsValue(ds) ==
    IF ds = <<>> THEN 0
    ELSE DigitsValue(SubSeq(ds, 1, Len(ds) - 1)) * 10 + DigitVal(ds[Len(ds)])

AllDigits(ds) == \A i \in 1..Len(ds) : ds[i] \in DigitSet
DotAt(ds) == IF \E i \in 1..Len(ds) : ds[i] = "."
               THEN CHOOSE i \in 1..Len(ds) : ds[i] = "." /\ \A j \in 1..(i - 1) : ds[j] # "."
               ELSE 0

\* <T as FromStr>::from_str on the buffer: <<n>> for Ok(n), <<>> for an
\* Err when the buffer is not a number of type ty.
parse(ty, buf) ==
    LET neg  == buf # <<>> /\ Head(buf) = "-"
        body == IF neg THEN Tail(buf) ELSE buf
        dot  == DotAt(body)
        ip   == IF dot = 0 THEN body ELSE SubSeq(body, 1, dot - 1)
        fp   == IF dot = 0 THEN <<>> ELSE SubSeq(body, dot + 1, Len(body))
        sgn(n) == IF neg THEN -n ELSE n
    IN IF ty = "f64"
         THEN IF /\ AllDigits(ip) /\ AllDigits(fp)
                 /\ Len(ip) + Len(fp) > 0
                 /\ Len(fp) <= MaxBuf
                THEN <<sgn(DigitsValue(ip) * Den + DigitsValue(fp) * Pow10(MaxBuf - Len(fp)))>>
                ELSE <<>>
         ELSE IF dot = 0 /\ AllDigits(body) /\ body # <<>>
                THEN <<sgn(DigitsValue(body))>>
                ELSE <<>>

(***************************************************************************)
(* Element identity.  An ElementId is the hash of a key (a label string or *)
(* a rectangle) and of the ID stack; the model keeps what was hashed, so   *)
(* two ids are equal exactly when the same things were hashed.             *)
(***************************************************************************)
NoRect == Rect(0, 0, 0, 0)
StrKey(label) == [kind |-> "str", str |-> label, rect |-> NoRect]
RectKey(r) == [kind |-> "rect", str |-> <<>>, rect |-> r]
\* UiState::get_id: hash of the key under the current ID stack.
get_id(u, key) == [key |-> key, parent |-> u.id_stack]
\* get_hash: hash of the key alone.
get_hash(key) == [key |-> key, parent |-> <<>>]

(***************************************************************************)
(* The interaction state store.  u is the store: the sets of hovered,      *)
(* active and focused ElementIds, the element being edited, the text-edit  *)
(* buffers and the scroll offsets by ElementId, and the disabled flag.     *)
(***************************************************************************)
is_hovered(u, id) == id \in u.hovered
is_active(u, id) == id \in u.active
is_focused(u, id) == id \in u.focused
is_editing(u, id) == id \in u.editing
has_other_active(u, id) == u.active \ {id} # {}

\* hover(id): mark id hovered.
hover(u, id) == [u EXCEPT !.hovered = @ \cup {id}]

\* try_hover(id, rect): hover id when the mouse is inside rect and no other
\* element is active, else clear the hover of id.
try_hover(u, id, inside) ==
    IF inside /\ ~has_other_active(u, id)
      THEN [u EXCEPT !.hovered = @ \cup {id}]
      ELSE [u EXCEPT !.hovered = @ \ {id}]

\* focus(id): give id the keyboard focus, taking it from any other id.
focus(u, id) == [u EXCEPT !.focused = {id}]

\* try_focus(id): focus id on click-capture.
try_focus(u, id) == IF is_active(u, id) THEN focus(u, id) ELSE u

\* A store that marks id active without releasing the element that was.
set_active_also(u, id) == [u EXCEPT !.active = @ \cup {id}]
\* set_active(id): make id the exclusive capture target.
set_active(u, id) == [u EXCEPT !.active = {id}]

\* try_capture(id) / handle_events(id) / handle_input(id): capture on
\* mouse-button-down while hovered, release on mouse-button-up wherever
\* the mouse is.
handle_events(u, id, down) ==
    IF down /\ is_hovered(u, id) THEN set_active(u, id)
    ELSE IF ~down THEN [u EXCEPT !.active = @ \ {id}]
    ELSE u

\* begin_edit(id) / end_edit(): enter and leave inline text editing.
begin_edit(u, id) == [u EXCEPT !.editing = {id}]
end_edit(u) == [u EXCEPT !.editing = {}]

HasText(u, id) == id \in DOMAIN u.text_edit
\* text_edit(id, initial): the buffer of id, created from initial.
text_edit(u, id, initial) == IF HasText(u, id) THEN u.text_edit[id] ELSE initial
\* set_text_edit(id, text): store the buffer of id.
set_text_edit(u, id, text) ==
    [u EXCEPT !.text_edit = [i \in DOMAIN @ \cup {id} |-> IF i = id THEN text ELSE @[i]]]
\* parse_text_edit(id, fallback): take the buffer of id out of the store
\* and parse it; the fallback when there is none or it does not parse.
parse_text_edit_value(u, id, ty, fallback) ==
    IF HasText(u, id) /\ parse(ty, u.text_edit[id]) # <<>>
      THEN parse(ty, u.text_edit[id])[1]
      ELSE fallback
parse_text_edit_store(u, id) ==
    [u EXCEPT !.text_edit = [i \in DOMAIN @ \ {id} |-> @[i]]]

\* scroll(id) / set_scroll(id, value): the persisted scroll offset.
scroll_of(u, id) == IF id \in DOMAIN u.scroll THEN u.scroll[id] ELSE <<0, 0>>
set_scroll(u, id, v) ==
    [u EXCEPT !.scroll = [i \in DOMAIN @ \cup {id} |-> IF i = id THEN v ELSE @[i]]]

(***************************************************************************)
(* State.                                                                  *)
(*   scene         which application is running (fixed at start)           *)
(*   pc, ix        phase of the frame loop; next widget call of on_update  *)
(*   mouse, pmouse MouseState of this frame and position of the last frame *)
(*   keys          KeyState: entered, pressed, mods_pressed                *)
(*   typed         the text typed this frame (TextInput event)             *)
(*   ui            the interaction state store                             *)
(*   wcfg, value   each widget's arguments and the caller's bound value    *)
(*   setting_stack, cursor_stack   depths of the style and cursor stacks   *)
(*   wstack        the with_window calls in progress                       *)
(*   renderer      windows, window_target, primary_window_id               *)
(*   ret           the last call that returned, and the store at its entry *)
(*   ids           the ElementId of each widget call made this frame, and  *)
(*                 the ID stack it was made under                          *)
(*   quiet         no event has arrived since the last frame               *)
(*   engine        PixEngine::run: should_close, the events polled and not *)
(*                 yet handled, the callbacks made, the frames presented,  *)
(*                 and what run returned                                   *)
(***************************************************************************)
VARIABLES scene, pc, ix, mouse, pmouse, keys, typed, ui, wcfg, value,
          setting_stack, cursor_stack, wstack, renderer, ret, ids, quiet, engine

vars == <<scene, pc, ix, mouse, pmouse, keys, typed, ui, wcfg, value,
          setting_stack, cursor_stack, wstack, renderer, ret, ids, quiet, engine>>

\* Theme metrics used by the layout of the widgets.
Theme == [font_size |-> 2, ipad_x |-> 1, ipad_y |-> 0, char_w |-> 1, padding |-> 1]
\* size_of(text): pixel size of a text in the body font.
size_of(text) == <<Len(text) * Theme.char_w, Theme.font_size>>

\* KeyState::mod_down / PixState::keymod_down
mod_down(k, keymod) == keymod \in k.mods_pressed
\* MouseState::is_down
is_down(m, btn) == btn \in m.pressed
\* UiState::key_entered
key_entered(k) == k.entered

(***************************************************************************)
(* Widget calls.  A call takes the store u, the mouse m, the keys k and    *)
(* the widget's arguments c, and returns a Result: the store and the bound *)
(* value it leaves, Ok(changed) or Err, the pushes it leaves on the style  *)
(* and cursor stacks, and the label text it displays.  fail names the      *)
(* rendering step that returns an error, if any.  Each call is written as  *)
(* the chain of its steps, every step handing its intermediate values to   *)
(* the next.                                                               *)
(***************************************************************************)
Result(id, u, v, ok, changed, ds, dc, shown) ==
    [id |-> id, ui |-> u, value |-> v, ok |-> ok, changed |-> changed, dstyle |-> ds,
     dcursor |-> dc, shown |-> shown]

(***************************************************************************)
(* advanced_slider (slider.rs 235-386).  c holds label, ty, min, max, pos  *)
(* and width; v is the bound value at entry.                               *)
(***************************************************************************)
SliderFails == {"none", "text_field", "size_of", "text_label", "rect", "frame_cursor",
                "text_value"}

\* The label as drawn (slider.rs 251, 96).
slider_label(c) == SplitFirst(c.label)

\* The track rectangle (slider.rs 283-291, 104-112).
track_rect(c) ==
    Rect(c.pos[1] + (IF slider_label(c) # <<>>
                       THEN size_of(slider_label(c))[1] + Theme.ipad_x ELSE 0),
         c.pos[2], c.width, Theme.font_size + 2 * Theme.ipad_y)

\* advanced_text_field on the edit buffer: appends the typed character the
\* filter lets through, Backspace removes the last one.
SliderFilter(ch) == ch \in DigitSet \/ ch = "." \/ ch = "-"
advanced_text_field(text, k, tx) ==
    IF tx # None /\ SliderFilter(tx) /\ Len(text) < MaxBuf THEN Append(text, tx)
    ELSE IF key_entered(k) = "Backspace" /\ text # <<>> THEN SubSeq(text, 1, Len(text) - 1)
    ELSE text

\* A mapping that leaves out the clamp of the mouse offset to the track.
slider_map_unclamped(c, track, mx) ==
    IF c.ty = "f64"
      THEN ((mx - track.x) * (c.max - c.min)) \div track.w + c.min
      ELSE TruncDiv((mx - track.x) * (c.max - c.min) + c.min * track.w, track.w)
\* Mouse position mapped onto [min, max] (slider.rs 366-374).
slider_map(c, track, mx) ==
    IF c.ty = "f64"
      THEN (Clamp(mx - track.x, 0, track.w) * (c.max - c.min)) \div track.w + c.min
      ELSE TruncDiv(Clamp(mx - track.x, 0, track.w) * (c.max - c.min) + c.min * track.w,
                    track.w)

\* slider.rs 265-277: the text field is shown in place of the slider.
slider_edited(u, id, k, c, v, text, text2) ==
    Result(id, IF key_entered(k) \in {"Return", "Escape"}
             THEN end_edit(set_text_edit(u, id, text2))
             ELSE set_text_edit(u, id, text2),
           v, TRUE, text2 # text, 0, 0, slider_label(c))
slider_editing(u, id, k, tx, c, v, text, fail) ==
    IF fail = "text_field" THEN Result(id, u, v, FALSE, FALSE, 0, 0, slider_label(c))
    ELSE slider_edited(u, id, k, c, v, text, advanced_text_field(text, k, tx))

\* A slider without the switch to text entry.
slider_input_mouse(u3, id, m, k, c, v1, new) ==
    Result(id, handle_events(u3, id, is_down(m, "Left")), new, TRUE, new # v1, 0, 0,
           slider_label(c))
\* slider.rs 365-377: the value follows the mouse while the slider is active,
\* CTRL switches to text entry; then capture and release.
slider_input(u3, id, m, k, c, v1, new) ==
    Result(id, handle_events(IF is_active(u3, id) /\ mod_down(k, "CTRL")
                           THEN begin_edit(u3, id) ELSE u3,
                         id, is_down(m, "Left")),
           new, TRUE, new # v1, 0, 0, slider_label(c))

\* A slider that follows the mouse whenever it is hovered, active or not.
slider_render_hovered(u3, id, m, k, c, v1, fail) ==
    slider_input(u3, id, m, k, c, v1,
                 IF is_hovered(u3, id) /\ ~mod_down(k, "CTRL")
                   THEN slider_map(c, track_rect(c), m.pos[1]) ELSE v1)
\* slider.rs 298-363: rendering, between the pushes and the pops.
slider_render(u3, id, m, k, c, v1, fail) ==
    CASE fail = "text_label" /\ slider_label(c) # <<>> ->
             Result(id, u3, v1, FALSE, FALSE, 1, 1, slider_label(c))
      [] fail = "rect" -> Result(id, u3, v1, FALSE, FALSE, 2, 1, slider_label(c))
      [] fail = "frame_cursor" /\ is_hovered(u3, id) ->
             Result(id, u3, v1, FALSE, FALSE, 2, 1, slider_label(c))
      [] fail = "text_value" -> Result(id, u3, v1, FALSE, FALSE, 1, 1, slider_label(c))
      [] OTHER ->
             slider_input(u3, id, m, k, c, v1,
                          IF is_active(u3, id) /\ ~mod_down(k, "CTRL")
                            THEN slider_map(c, track_rect(c), m.pos[1]) ELSE v1)

\* slider.rs 280-296: the pending text edit is parsed into the value, then
\* hover and focus.
slider_check(u1, id, m, k, c, v1, fail) ==
    IF fail = "size_of" THEN Result(id, u1, v1, FALSE, FALSE, 0, 0, slider_label(c))
    ELSE slider_render(try_focus(try_hover(u1, id, ContainsPoint(track_rect(c), m.pos)), id),
                       id, m, k, c, v1, fail)
slider_commit(u0, id, m, k, c, v, fail) ==
    slider_check(parse_text_edit_store(u0, id), id, m, k, c,
                 Clamp(parse_text_edit_value(u0, id, c.ty, v), c.min, c.max), fail)

slider_call(u, id, m, k, tx, c, v, fail) ==
    IF is_editing(u, id) /\ ~u.disabled
      THEN slider_editing(u, id, k, tx, c, v, text_edit(u, id, to_string(c.ty, v)), fail)
      ELSE slider_commit(IF is_editing(u, id) THEN end_edit(u) ELSE u, id, m, k, c, v, fail)
\* A slider that hashes the displayed part of its label only.
advanced_slider_stripped(u, m, k, tx, c, v, fail) ==
    slider_call(u, get_id(u, StrKey(slider_label(c))), m, k, tx, c, v, fail)
advanced_slider(u, m, k, tx, c, v, fail) ==
    slider_call(u, get_id(u, StrKey(c.label)), m, k, tx, c, v, fail)

(***************************************************************************)
(* advanced_drag (slider.rs 80-190).  pm is the mouse position of the      *)
(* previous frame.                                                         *)
(***************************************************************************)
DragFails == {"none", "size_of", "text_label", "frame_cursor", "rect", "text_value"}

\* delta * speed for T (slider.rs 173-180): ALT divides the pixel delta by
\* 100, SHIFT multiplies it by 10.
drag_step(c, k, dx) ==
    IF c.ty = "f64"
      THEN IF mod_down(k, "ALT") THEN TruncDiv(dx * c.speed, 100)
           ELSE IF mod_down(k, "SHIFT") THEN dx * 10 * c.speed
           ELSE dx * c.speed
      ELSE IF mod_down(k, "ALT") THEN TruncDiv(dx, 100) * c.speed
           ELSE IF mod_down(k, "SHIFT") THEN dx * 10 * c.speed
           ELSE dx * c.speed

\* The integer type of drag::<T> in the scene of SpecDrag is TBits wide.
TBits == 8
TMin == -(2 ^ (TBits - 1))
TMax == 2 ^ (TBits - 1) - 1
InType(ty, x) == ty # "int" \/ (x >= TMin /\ x <= TMax)
\* slider.rs 173-178: the pixel delta cast to T and scaled.
drag_delta(k, dx) ==
    IF mod_down(k, "ALT") THEN TruncDiv(dx, 100)
    ELSE IF mod_down(k, "SHIFT") THEN dx * 10
    ELSE dx
\* slider.rs 174-180: a value of the computation does not fit T.  The cast
\* panics by `expect`; the arithmetic panics with overflow checks (the dev
\* and test profiles) and wraps without them.  The model takes the panic:
\* the call does not return Ok.
drag_overflows(c, k, v, dx) ==
    ~(/\ InType(c.ty, dx)
      /\ InType(c.ty, drag_delta(k, dx))
      /\ InType(c.ty, drag_delta(k, dx) * c.speed)
      /\ InType(c.ty, v + drag_delta(k, dx) * c.speed))

\* slider.rs 170-189
drag_input(u2, id, m, c, v, new) ==
    Result(id, handle_events(u2, id, is_down(m, "Left")), new, TRUE, new # v, 0, 0,
           slider_label(c))

\* slider.rs 120-168
drag_render(u, u2, id, m, pm, k, c, v, fail) ==
    CASE fail = "text_label" /\ slider_label(c) # <<>> ->
             Result(id, u2, v, FALSE, FALSE, 1, 1, slider_label(c))
      [] fail = "frame_cursor" /\ (is_active(u2, id) \/ (is_hovered(u2, id) /\ ~u.disabled)) ->
             Result(id, u2, v, FALSE, FALSE, 2, 1, slider_label(c))
      [] fail = "rect" -> Result(id, u2, v, FALSE, FALSE, 2, 1, slider_label(c))
      [] fail = "text_value" -> Result(id, u2, v, FALSE, FALSE, 1, 1, slider_label(c))
      [] is_active(u2, id) /\ drag_overflows(c, k, v, m.pos[1] - pm[1]) ->
             Result(id, u2, v, FALSE, FALSE, 0, 0, slider_label(c))
      [] OTHER ->
             drag_input(u2, id, m, c, v,
                        IF is_active(u2, id)
                          THEN Clamp(v + drag_step(c, k, m.pos[1] - pm[1]), c.min, c.max)
                          ELSE v)

drag_call(u, id, m, pm, k, c, v, fail) ==
    IF fail = "size_of" THEN Result(id, u, v, FALSE, FALSE, 0, 0, slider_label(c))
    ELSE drag_render(u, try_focus(try_hover(u, id, ContainsPoint(track_rect(c), m.pos)), id),
                     id, m, pm, k, c, v, fail)
advanced_drag(u, m, pm, k, c, v, fail) ==
    drag_call(u, get_id(u, StrKey(c.label)), m, pm, k, c, v, fail)

(***************************************************************************)
(* scrollbar (scroll.rs 77-201).  v is the bound scroll value at entry.    *)
(***************************************************************************)
SCROLL_SPEED == 3

\* scroll.rs 147-166: arrow keys while focused.
scroll_keys(focused, key, dir, max, v1) ==
    IF focused /\ ((dir = "Vertical" /\ key = "Up") \/ (dir = "Horizontal" /\ key = "Left"))
      THEN Max(v1 - SCROLL_SPEED, 0)
    ELSE IF focused /\ ((dir = "Vertical" /\ key = "Down") \/ (dir = "Horizontal" /\ key = "Right"))
      THEN Min(v1 + SCROLL_SPEED, max)
    ELSE v1
\* scroll.rs 169-179: the mouse wheel while hovered.
scroll_wheel(hovered, rel, kv) == IF hovered /\ rel # 0 THEN kv - SCROLL_SPEED * rel ELSE kv
\* scroll.rs 181-192: the thumb follows the mouse while active.
scroll_mouse(active, m, rect, dir, max, wv) ==
    IF active
      THEN IF dir = "Vertical"
             THEN TruncDiv(Clamp(m.pos[2] - rect.y, 0, rect.h) * max, rect.h)
             ELSE TruncDiv(Clamp(m.pos[1] - rect.x, 0, rect.w) * max, rect.w)
      ELSE wv

scrollbar_input(u2, id, m, v1, new) ==
    Result(id, handle_events(u2, id, is_down(m, "Left")), new, TRUE, new # v1, 0, 0, <<>>)

scrollbar_render(u2, id, m, k, rect, max, v1, dir, fail) ==
    CASE fail = "rect" -> Result(id, u2, v1, FALSE, FALSE, 1, 0, <<>>)
      [] fail = "frame_cursor" /\ is_hovered(u2, id) -> Result(id, u2, v1, FALSE, FALSE, 1, 0, <<>>)
      [] OTHER ->
           scrollbar_input(u2, id, m, v1,
               scroll_mouse(is_active(u2, id), m, rect, dir, max,
                   scroll_wheel(is_hovered(u2, id), IF dir = "Vertical" THEN m.yrel ELSE m.xrel,
                       scroll_keys(is_focused(u2, id), key_entered(k), dir, max, v1))))

scrollbar_call(u, id, m, k, rect, max, v, dir, fail) ==
    scrollbar_render(try_focus(try_hover(u, id, ContainsPoint(rect, m.pos)), id),
                     id, m, k, rect, max, Max(0, Min(max, v)), dir, fail)
scrollbar(u, m, k, rect, max, v, dir, fail) ==
    scrollbar_call(u, get_id(u, RectKey(rect)), m, k, rect, max, v, dir, fail)

(***************************************************************************)
(* _select_list (list.rs 28-206).  c holds rect, label, item_height and    *)
(* the number n of items; sel is the caller's selection: <<>> for None,    *)
(* <<i>> for Some(i).                                                      *)
(***************************************************************************)
ListFails == {"none", "size_of", "render", "clip", "scrollbar", "border"}
ListGeom == [radius |-> 3, scroll_width |-> 16]

\* UiState::try_capture(id): capture on mouse-button-down while hovered.
try_capture(u, id, down) == IF down /\ is_hovered(u, id) THEN set_active(u, id) ELSE u
\* UiState::handle_input(id): focus on click-capture, release on
\* mouse-button-up.
release_on_up(u1, id, down) == IF ~down THEN [u1 EXCEPT !.active = @ \ {id}] ELSE u1
handle_input(u, id, down) == release_on_up(try_focus(u, id), id, down)

\* Rect::resized(r, -d): r shrunk by d on every side.
Inset(r, d) == Rect(r.x + d, r.y + d, r.w - 2 * d, r.h - 2 * d)

\* list.rs 48-63
list_border(c) ==
    IF c.label # <<>>
      THEN [c.rect EXCEPT !.y = @ + size_of(c.label)[2] + Theme.padding]
      ELSE c.rect
line_height(c) == c.item_height + Theme.padding * 2
total_height(c) == c.n * line_height(c)
scroll_enabled(c) == total_height(c) > Inset(list_border(c), ListGeom.radius).h
list_content(c) ==
    IF scroll_enabled(c)
      THEN [Inset(list_border(c), ListGeom.radius) EXCEPT !.w = @ - ListGeom.scroll_width]
      ELSE Inset(list_border(c), ListGeom.radius)
\* (scroll.y / line_height) as usize: a negative quotient wraps to a
\* count larger than any list.
skip_count(c, sy) == IF sy < 0 /\ -sy >= line_height(c) THEN c.n ELSE TruncDiv(sy, line_height(c))
displayed_count(c) == list_content(c).h \div line_height(c)
\* Rows the loop of list.rs 97-101 visits.
shown_rows(c, sy) ==
    {i \in 0..(c.n - 1) : i >= skip_count(c, sy) /\ i < skip_count(c, sy) + displayed_count(c) + 2}
\* list.rs 103-114: the mouse is in the click area of the row whose top is
\* at y in the content, lh high, the content being ch high and cw wide.
row_area(y, lh, cw, ch, mx, my) ==
    /\ (y + lh > 0) \/ (y < ch)
    /\ mx >= 0 /\ mx < cw
    /\ my >= Max(y, 0)
    /\ my < Min(Max(y, 0) + (IF y < 0 THEN lh + y ELSE lh), ch)
row_hit(c, sy, i, mp) ==
    row_area(i * line_height(c) - sy, line_height(c), list_content(c).w, list_content(c).h,
             mp[1] - list_content(c).x, mp[2] - list_content(c).y)

list_scrollbar_rect(c) ==
    Rect(Right(list_border(c)) - ListGeom.scroll_width, list_border(c).y,
         ListGeom.scroll_width, list_border(c).h)

\* A list that selects the row under the mouse whether the button is down
\* or not.
list_click_up(u2, id, m, sel, hits) ==
    IF hits # {} /\ is_active(u2, id) THEN <<CHOOSE i \in hits : \A j \in hits : j <= i>> ELSE sel
\* list.rs 97-119: a row under the pressed mouse is selected while the list
\* is active.
list_click(u2, id, m, sel, hits) ==
    IF hits # {} /\ is_active(u2, id) /\ is_down(m, "Left") THEN <<CHOOSE i \in hits : \A j \in hits : j <= i>> ELSE sel
\* list.rs 139-160: Up and Down move the selection while the list is focused.
list_move(focused, key, n, sel1) ==
    IF focused /\ key = "Up"
      THEN (IF sel1 = <<>> THEN <<0>> ELSE <<Max(sel1[1] - 1, 0)>>)
    ELSE IF focused /\ key = "Down"
      THEN (IF sel1 = <<>> THEN <<0>>
            ELSE IF sel1[1] + 1 >= n THEN <<n - 1>> ELSE <<sel1[1] + 1>>)
    ELSE sel1
\* A list that snaps to the top only.
list_snap_top(moved, sel_y, lh, ch, sy) == IF moved /\ sel_y < sy THEN sel_y ELSE sy
\* list.rs 161-172: the offset snaps so that the row at sel_y is in view.
list_snap(moved, sel_y, lh, ch, sy) ==
    IF moved /\ sel_y < sy THEN sel_y
    ELSE IF moved /\ sel_y + lh > sy + ch THEN sel_y - (ch - lh)
    ELSE sy

\* list.rs 194-203
list_end(u5, id, c, sel, sel2, fail) ==
    IF fail = "border" THEN Result(id, u5, sel2, FALSE, FALSE, 1, 0, c.label)
    ELSE Result(id, u5, sel2, TRUE, sel2 # sel, 0, 0, c.label)
\* list.rs 189-192
list_scrolled(bar, id, sx, c, sel, sel2, fail) ==
    IF ~bar.ok THEN Result(id, bar.ui, sel2, FALSE, FALSE, 2, 0, c.label)
    ELSE list_end(IF bar.changed THEN set_scroll(bar.ui, id, <<sx, bar.value>>) ELSE bar.ui,
                  id, c, sel, sel2, fail)
\* list.rs 175-188
list_bar(u4, id, m, k, sx, snap_y, c, sel, sel2, fail) ==
    IF scroll_enabled(c)
      THEN list_scrolled(scrollbar(u4, m, k, list_scrollbar_rect(c),
                                   total_height(c) - list_content(c).h, snap_y, "Vertical",
                                   IF fail = "scrollbar" THEN "rect" ELSE "none"),
                         id, sx, c, sel, sel2, fail)
      ELSE list_end(u4, id, c, sel, sel2, fail)
list_snapped(u2, id, m, k, scroll, snap_y, c, sel, sel2, fail) ==
    list_bar(handle_input(IF snap_y # scroll[2] THEN set_scroll(u2, id, <<scroll[1], snap_y>>)
                          ELSE u2,
                          id, is_down(m, "Left")),
             id, m, k, scroll[1], snap_y, c, sel, sel2, fail)
list_keys(u2, id, m, k, scroll, c, sel, sel2, fail) ==
    list_snapped(u2, id, m, k, scroll,
                 list_snap(is_focused(u2, id) /\ key_entered(k) \in {"Up", "Down"},
                           (IF sel2 = <<>> THEN 0 ELSE sel2[1]) * line_height(c),
                           line_height(c), list_content(c).h, scroll[2]),
                 c, sel, sel2, fail)
\* list.rs 148-153: `items.len() - 1` on an empty list, reached by Down from a
\* selection.  The subtraction on usize overflows: with overflow checks (the
\* dev and test profiles) the call panics; without them the index wraps to
\* usize::MAX.  The model takes the panic: the call does not return Ok.
list_underflow(focused, key, n, sel1) ==
    focused /\ key = "Down" /\ sel1 # <<>> /\ sel1[1] + 1 >= n /\ n = 0
list_rows(u2, id, m, k, scroll, c, sel, sel1, fail) ==
    IF fail = "clip" THEN Result(id, u2, sel1, FALSE, FALSE, 1, 0, c.label)
    ELSE IF list_underflow(is_focused(u2, id), key_entered(k), c.n, sel1)
      THEN Result(id, u2, sel1, FALSE, FALSE, 1, 0, c.label)
    ELSE list_keys(u2, id, m, k, scroll, c, sel,
                   list_move(is_focused(u2, id), key_entered(k), c.n, sel1), fail)
\* list.rs 71-96
list_render(u2, id, m, k, scroll, c, sel, fail) ==
    IF fail = "render" THEN Result(id, u2, sel, FALSE, FALSE, 1, 0, c.label)
    ELSE list_rows(u2, id, m, k, scroll, c, sel,
                   list_click(u2, id, m, sel,
                              {i \in shown_rows(c, scroll[2]) : row_hit(c, scroll[2], i, m.pos)}),
                   fail)
\* list.rs 40-69
list_call(u, id, m, k, c, sel, fail) ==
    IF fail = "size_of" /\ c.label # <<>> THEN Result(id, u, sel, FALSE, FALSE, 1, 0, c.label)
    ELSE list_render(try_capture(IF ContainsPoint(list_content(c), m.pos) THEN hover(u, id)
                                 ELSE u,
                                 id, is_down(m, "Left")),
                     id, m, k, scroll_of(u, id), c, sel, fail)
select_list(u, m, k, c, sel, fail) ==
    list_call(u, get_hash(RectKey(c.rect)), m, k, c, sel, fail)

(***************************************************************************)
(* scroll (scroll.rs 13-75): the wheel over the element id, then the        *)
(* vertical and the horizontal scrollbar beside rect; width and height are *)
(* the extent of the content.                                              *)
(***************************************************************************)
SCROLL_SIZE == 12
\* scroll.rs 42 and 57-62: the rectangles of the two scrollbars.
scroll_vbar(rect) == Rect(Right(rect) + 1, rect.y, SCROLL_SIZE, rect.h)
scroll_hbar(rect) == Rect(rect.x, Bottom(rect) + 1, rect.w - SCROLL_SIZE, SCROLL_SIZE)

\* scroll.rs 26-36: the offset after the wheel.
scroll_wheeled(hovered, rel, max, v) ==
    IF hovered /\ rel # 0 THEN Max(0, Min(max, v - 3 * rel)) ELSE v
scroll_store(u, id, m, xmax, ymax) ==
    IF is_hovered(u, id) /\ (m.xrel # 0 \/ m.yrel # 0)
      THEN set_scroll(u, id, <<scroll_wheeled(TRUE, m.xrel, xmax, scroll_of(u, id)[1]),
                               scroll_wheeled(TRUE, m.yrel, ymax, scroll_of(u, id)[2])>>)
      ELSE u
\* scroll.rs 47-50 and 67-70: the value of a scrollbar that moved is stored.
scroll_set(bar, id, x, y) == IF bar.changed THEN set_scroll(bar.ui, id, <<x, y>>) ELSE bar.ui
scroll_end(id, u, ok, ds) == Result(id, u, scroll_of(u, id), ok, FALSE, ds, 0, <<>>)
\* scroll.rs 53-74
scroll_hbar_done(bar, id, y) ==
    IF ~bar.ok THEN scroll_end(id, bar.ui, FALSE, 1)
    ELSE scroll_end(id, scroll_set(bar, id, bar.value, y), TRUE, 0)
scroll_horizontal(u2, m, k, id, c, fail) ==
    IF c.width > c.rect.w
      THEN scroll_hbar_done(scrollbar(u2, m, k, scroll_hbar(c.rect), c.width - c.rect.w,
                                      scroll_of(u2, id)[1], "Horizontal",
                                      IF fail = "hbar" THEN "rect" ELSE "none"),
                            id, scroll_of(u2, id)[2])
      ELSE scroll_end(id, u2, TRUE, 0)
\* scroll.rs 38-51
scroll_vbar_done(bar, m, k, id, x, c, fail) ==
    IF ~bar.ok THEN scroll_end(id, bar.ui, FALSE, 1)
    ELSE scroll_horizontal(scroll_set(bar, id, x, bar.value), m, k, id, c, fail)
scroll_vertical(u1, m, k, id, c, fail) ==
    IF c.height > c.rect.h
      THEN scroll_vbar_done(scrollbar(u1, m, k, scroll_vbar(c.rect), c.height - c.rect.h,
                                      scroll_of(u1, id)[2], "Vertical",
                                      IF fail = "vbar" THEN "rect" ELSE "none"),
                            m, k, id, scroll_of(u1, id)[1], c, fail)
      ELSE scroll_horizontal(u1, m, k, id, c, fail)
scroll(u, m, k, id, c, fail) ==
    scroll_vertical(scroll_store(u, id, m, c.width - c.rect.w, c.height - c.rect.h),
                    m, k, id, c, fail)

(***************************************************************************)
(* Applications.  A scene fixes what on_update does every frame: widget    *)
(* calls with their arguments, with_window closures and pushed ids, in     *)
(* order; and the input the user gives: the positions the mouse moves to,  *)
(* the keys pressed (with the modifier reported by the event) and the      *)
(* characters typed.                                                       *)
(***************************************************************************)
Cfg(kind, label, ty, min, max, speed, pos, width, rect, item_height, n) ==
    [kind |-> kind, label |-> label, ty |-> ty, min |-> min, max |-> max, speed |-> speed,
     pos |-> pos, width |-> width, rect |-> rect, item_height |-> item_height, n |-> n]
SliderCfg(label, ty, min, max, pos) ==
    Cfg("slider", label, ty, min, max, 0, pos, TrackW, NoRect, 0, 0)
\* A list whose viewport holds two rows and ViewSlack pixels more.
ListCfg(label, pos, n) ==
    Cfg("list", label, "usize", 0, 0, 0, pos, 0,
        Rect(pos[1], pos[2], 30, 2 * ListGeom.radius + 2 * (2 + 2 * Theme.padding) + ViewSlack),
        2, n)

LabelA == <<"C", Hash, Hash, "a">>
LabelB == <<"C", Hash, Hash, "b">>

Call(w) == [op |-> "call", w |-> w]
Op(name) == [op |-> name, w |-> None]
Repeat(op, n) == [i \in 1..n |-> op]
Program(sc) ==
    CASE sc = "sliders"     -> <<Call("S"), Call("T")>>
      [] sc = "slider_list" -> <<Call("S"), Call("L")>>
      [] sc = "list_drag"   -> <<Call("L"), Call("D")>>
      [] sc = "slider_edit" -> <<Call("S"), Call("T")>>
      [] sc = "windows"     -> Repeat(Op("window"), MaxNest) \o <<Call("S")>>
                                 \o Repeat(Op("end"), MaxNest) \o <<Call("T")>>
      [] sc = "labels"      -> <<Op("push_id"), Call("S"), Op("pop_id"),
                                 Op("push_id"), Call("T"), Op("pop_id"), Call("U")>>
      [] sc = "list"        -> <<Call("L")>>
      [] sc = "lists"       -> <<Call("L"), Call("M")>>
      [] OTHER              -> <<Call("S")>>

SceneCfg(sc) ==
    CASE sc \in {"sliders", "slider_edit", "windows"} ->
           [w \in {"S", "T"} |->
              IF w = "S" THEN SliderCfg(LabelA, "i32", 0, TrackW, <<0, 0>>)
                         ELSE SliderCfg(LabelB, "i32", 0, TrackW, <<0, 2>>)]
      [] sc = "slider_list" ->
           [w \in {"S", "L"} |->
              IF w = "S" THEN SliderCfg(LabelA, "i32", 0, TrackW, <<0, 0>>)
                         ELSE ListCfg(<<>>, <<0, 2>>, NItems)]
      [] sc = "list_drag" ->
           [w \in {"L", "D"} |->
              IF w = "D" THEN Cfg("drag", <<>>, "i32", 0, TrackW, 1, <<0, 0>>, TrackW, NoRect, 0, 0)
                         ELSE ListCfg(<<>>, <<0, 2>>, NItems)]
      [] sc = "list" ->
           [w \in {"L"} |-> ListCfg(<<>>, <<0, 0>>, NItems)]
      [] OTHER ->
           [w \in {"S"} |-> SliderCfg(LabelA, "i32", 0, TrackW, <<0, 0>>)]

\* Mouse positions: one outside every widget, one just inside the left
\* end of a rectangle, one just inside its right end, one k pixels along a
\* track, one in row i of a list.
Outside == <<90, 90>>
PtIn(r) == <<r.x + 1, r.y + 1>>
PtAt(r, k) == <<r.x + k, r.y + 1>>
PtRow(c, i) == <<list_content(c).x + 1, list_content(c).y + i * line_height(c) + 1>>

ScenePoints(sc, cf) ==
    CASE sc = "sliders" ->
           {Outside, PtIn(track_rect(cf["S"])), PtIn(track_rect(cf["T"]))}
      [] sc \in {"slider_edit", "windows", "edit", "input"} ->
           {Outside, PtIn(track_rect(cf["S"]))}
      [] sc = "slider_list" ->
           {Outside, PtIn(track_rect(cf["S"])), PtRow(cf["L"], 0),
            PtIn(list_scrollbar_rect(cf["L"]))}
      [] sc = "list_drag" ->
           {Outside, PtIn(track_rect(cf["D"])), PtAt(track_rect(cf["D"]), TrackW - 1), PtRow(cf["L"], 1)}
      [] sc = "slider" ->
           {Outside} \cup {PtAt(track_rect(cf["S"]), k) : k \in 0..TrackW}
      [] sc = "list" ->
           {Outside, PtRow(cf["L"], 0), PtIn(list_scrollbar_rect(cf["L"]))}
      [] sc = "lists" -> {Outside, PtRow(cf["L"], 0)}
      [] sc = "drag" ->
           {Outside} \cup {PtAt(track_rect(cf["S"]), k) : k \in 0..TrackW}
      [] sc = "scroll" ->
           {Outside, PtIn(cf["S"].rect), PtIn(scroll_vbar(cf["S"].rect)),
            PtIn(scroll_hbar(cf["S"].rect))}
      [] OTHER -> {Outside}

\* Key events <<key, keymod>> of a scene.
SceneKeys(sc) ==
    CASE sc = "slider_edit" -> {<<"LCtrl", "CTRL">>, <<"Return", "NONE">>}
      [] sc = "slider_list" -> {<<"Down", "NONE">>}
      [] sc = "slider" -> {<<"LCtrl", "CTRL">>, <<"Return", "NONE">>}
      [] sc = "edit" -> {<<"LCtrl", "CTRL">>, <<"Return", "NONE">>, <<"Escape", "NONE">>}
      [] sc = "list" -> {<<"Up", "NONE">>, <<"Down", "NONE">>}
      [] sc = "input" -> {<<"Up", "NONE">>, <<"LShift", "SHIFT">>}
      [] sc = "scroll" -> {<<"Down", "NONE">>}
      [] sc = "drag" -> {<<"LShift", "SHIFT">>, <<"LAlt", "ALT">>}
      [] sc = "lists" -> {<<"Down", "NONE">>}
      [] OTHER -> {}

\* Characters typed into the text field of a slider being edited.
TypedChars == {"1", "-"}

(***************************************************************************)
(* Initial state: PixState::new and UiState::default, before the first     *)
(* event, running scene sc with widget arguments cf and bound values vals. *)
(***************************************************************************)
EmptyMap == [i \in {} |-> 0]
NewUi == [hovered |-> {}, active |-> {}, focused |-> {}, editing |-> {},
          text_edit |-> EmptyMap, scroll |-> EmptyMap, disabled |-> FALSE,
          id_stack |-> <<>>]
NoRet == [fn |-> None, w |-> None, id |-> None, fail |-> None, ok |-> TRUE,
          changed |-> FALSE, style0 |-> 0, cursor0 |-> 0, shown |-> <<>>, value0 |-> <<>>,
          ui0 |-> NewUi, quiet |-> FALSE]

\* PixEngine::new (engine.rs 28-41) before run, and the Renderer of
\* sdl.rs 33-41 with its windows (sdl/window.rs).
NewEngine == [should_close |-> FALSE, events |-> <<>>, polled |-> <<>>, pending |-> <<>>,
              on_start |-> 0, on_update |-> 0, on_stop |-> 0, presented |-> 0,
              called |-> None, failed |-> FALSE, result |-> None]
NewRenderer == [windows |-> {1, 2}, window_target |-> 1, primary_window_id |-> 1,
                textures |-> <<>>, created |-> 0,
                audio_device |-> [size |-> 0, queued |-> 0, played |-> 0]]

InitScene(sc, cf, vals) ==
    /\ scene = sc
    /\ pc = "events"
    /\ ix = 1
    /\ mouse = [pos |-> Outside, pressed |-> {}, clicked |-> {}, xrel |-> 0, yrel |-> 0]
    /\ pmouse = Outside
    /\ keys = [entered |-> None, pressed |-> {}, mods_pressed |-> {}]
    /\ typed = None
    /\ ui = NewUi
    /\ wcfg = cf
    /\ value = vals
    /\ setting_stack = 0
    /\ cursor_stack = 0
    /\ wstack = <<>>
    /\ renderer = NewRenderer
    /\ ret = NoRet
    /\ ids = EmptyMap
    /\ quiet = TRUE
    /\ engine = NewEngine

\* Bound values at start: <<min>> for a number, <<>> (None) for a selection.
StartValues(cf) == [w \in DOMAIN cf |-> IF cf[w].kind = "list" THEN <<>> ELSE <<cf[w].min>>]

(***************************************************************************)
(* Events folded into the input state before on_update.  quiet records     *)
(* that no event has arrived since the last frame.                         *)
(***************************************************************************)
\* MouseState::set_pos (core/state.rs 147-149)
set_pos(p) ==
    /\ pc = "events"
    /\ mouse' = [mouse EXCEPT !.pos = p]
    /\ quiet' = FALSE
    /\ UNCHANGED <<scene, pc, ix, pmouse, keys, typed, ui, wcfg, value, setting_stack,
                   cursor_stack, wstack, renderer, ret, ids, engine>>

\* MouseState::press (core/state.rs 165-167)
mouse_press(btn) ==
    /\ pc = "events"
    /\ mouse' = [mouse EXCEPT !.pressed = @ \cup {btn}]
    /\ quiet' = FALSE
    /\ UNCHANGED <<scene, pc, ix, pmouse, keys, typed, ui, wcfg, value, setting_stack,
                   cursor_stack, wstack, renderer, ret, ids, engine>>

\* MouseState::release (core/state.rs 171-173)
mouse_release(btn) ==
    /\ pc = "events"
    /\ mouse' = [mouse EXCEPT !.pressed = @ \ {btn}]
    /\ quiet' = FALSE
    /\ UNCHANGED <<scene, pc, ix, pmouse, keys, typed, ui, wcfg, value, setting_stack,
                   cursor_stack, wstack, renderer, ret, ids, engine>>

\* KeyState::press (keys.rs 41-45)
press(k, key, keymod) ==
    [entered |-> key, pressed |-> k.pressed \cup {key},
     mods_pressed |-> k.mods_pressed \cup {keymod}]
\* KeyState::release (keys.rs 49-52)
release(k, key, keymod) ==
    [k EXCEPT !.pressed = @ \ {key}, !.mods_pressed = @ \ {keymod}]

\* At most MaxHeld keys are held down at once.
MaxHeld == 1

key_press(key, keymod) ==
    /\ pc = "events"
    /\ Cardinality(keys.pressed \cup {key}) <= MaxHeld
    /\ keys' = press(keys, key, keymod)
    /\ quiet' = FALSE
    /\ UNCHANGED <<scene, pc, ix, mouse, pmouse, typed, ui, wcfg, value, setting_stack,
                   cursor_stack, wstack, renderer, ret, ids, engine>>

key_release(key, keymod) ==
    /\ pc = "events"
    /\ key \in keys.pressed
    /\ keys' = release(keys, key, keymod)
    /\ quiet' = FALSE
    /\ UNCHANGED <<scene, pc, ix, mouse, pmouse, typed, ui, wcfg, value, setting_stack,
                   cursor_stack, wstack, renderer, ret, ids, engine>>

\* A TextInput event: the character typed this frame.
text_input(ch) ==
    /\ pc = "events"
    /\ typed' = ch
    /\ quiet' = FALSE
    /\ UNCHANGED <<scene, pc, ix, mouse, pmouse, keys, ui, wcfg, value, setting_stack,
                   cursor_stack, wstack, renderer, ret, ids, engine>>

\* A MouseWheel event: the wheel motion of this frame.
mouse_wheel(dy) ==
    /\ pc = "events"
    /\ mouse' = [mouse EXCEPT !.yrel = dy]
    /\ quiet' = FALSE
    /\ UNCHANGED <<scene, pc, ix, pmouse, keys, typed, ui, wcfg, value, setting_stack,
                   cursor_stack, wstack, renderer, ret, ids, engine>>

\* The application disables or enables the widgets drawn from now on.
disable(b) ==
    /\ pc = "events"
    /\ ui.disabled # b
    /\ ui' = [ui EXCEPT !.disabled = b]
    /\ quiet' = FALSE
    /\ UNCHANGED <<scene, pc, ix, mouse, pmouse, keys, typed, wcfg, value, setting_stack,
                   cursor_stack, wstack, renderer, ret, ids, engine>>

(***************************************************************************)
(* The frame: pre_update, the steps of on_update in program order,         *)
(* post_update.  An error of a step propagates out of on_update, through   *)
(* the with_window calls in progress, and ends the run.                    *)
(***************************************************************************)
\* PixState::pre_update (core/state.rs 111-115)
pre_update ==
    /\ pc = "events"
    /\ pc' = "update"
    /\ ix' = 1
    /\ UNCHANGED <<scene, mouse, pmouse, keys, typed, ui, wcfg, value, setting_stack,
                   cursor_stack, wstack, renderer, ret, ids, quiet, engine>>

AtOp(name) ==
    /\ pc = "update"
    /\ ix <= Len(Program(scene))
    /\ Program(scene)[ix].op = name
AtCall(kind) ==
    /\ AtOp("call")
    /\ wcfg[Program(scene)[ix].w].kind = kind
Callee == Program(scene)[ix].w

\* The call of fn on widget w returns r: its effects, and the way
\* on_update goes on.
Returns(fn, w, fail, r) ==
    /\ ui' = r.ui
    /\ value' = [value EXCEPT ![w] = r.value]
    /\ setting_stack' = setting_stack + r.dstyle
    /\ cursor_stack' = cursor_stack + r.dcursor
    /\ ret' = [fn |-> fn, w |-> w, id |-> r.id, fail |-> fail, ok |-> r.ok,
               changed |-> r.changed, style0 |-> setting_stack, cursor0 |-> cursor_stack,
               shown |-> r.shown, value0 |-> value[w], ui0 |-> ui, quiet |-> quiet]
    /\ ids' = [x \in DOMAIN ids \cup {w} |->
                 IF x = w THEN [id |-> r.id, stack |-> ui.id_stack] ELSE ids[x]]
    /\ pc' = IF r.ok THEN "update" ELSE IF wstack = <<>> THEN "stopped" ELSE "error"
    /\ ix' = ix + 1
    /\ UNCHANGED <<scene, mouse, pmouse, keys, typed, wcfg, wstack, renderer, quiet, engine>>

WrapValue(r) == [r EXCEPT !.value = <<@>>]

\* A rendering step of a widget may return an error in two of the scenes.
Fails(all) == IF scene \in {"windows", "list_drag"} THEN all ELSE {"none"}

call_slider ==
    /\ AtCall("slider")
    /\ \E fail \in Fails(SliderFails) :
         Returns("advanced_slider", Callee, fail,
                 WrapValue(advanced_slider(ui, mouse, keys, typed, wcfg[Callee],
                                           value[Callee][1], fail)))

call_drag ==
    /\ AtCall("drag")
    /\ \E fail \in Fails(DragFails) :
         Returns("advanced_drag", Callee, fail,
                 WrapValue(advanced_drag(ui, mouse, pmouse, keys, wcfg[Callee],
                                         value[Callee][1], fail)))

call_list ==
    /\ AtCall("list")
    /\ \E fail \in Fails(ListFails) :
         Returns("select_list", Callee, fail,
                 select_list(ui, mouse, keys, wcfg[Callee], value[Callee], fail))

\* with_window (core/window.rs 388-403).  The windows the application names.
WindowIds == {1, 2, 3}
WindowRet(ok, style0, cursor0) ==
    [NoRet EXCEPT !.fn = "with_window", !.ok = ok, !.style0 = style0, !.cursor0 = cursor0,
                  !.ui0 = ui]

\* window.rs 392-396: the pushes, then set_window_target(id)? (renderer/sdl/
\* window.rs 463-470), which returns InvalidWindow for an unknown id.
enter_window ==
    /\ AtOp("window")
    /\ \E id \in WindowIds :
         /\ setting_stack' = setting_stack + 1
         /\ cursor_stack' = cursor_stack + 1
         /\ ix' = ix + 1
         /\ IF id \in renderer.windows
              THEN /\ renderer' = [renderer EXCEPT !.window_target = id]
                   /\ wstack' = Append(wstack, [style0 |-> setting_stack,
                                                cursor0 |-> cursor_stack])
                   /\ UNCHANGED <<pc, ret>>
              ELSE /\ ret' = WindowRet(FALSE, setting_stack, cursor_stack)
                   /\ pc' = IF wstack = <<>> THEN "stopped" ELSE "error"
                   /\ UNCHANGED <<renderer, wstack>>
    /\ UNCHANGED <<scene, mouse, pmouse, keys, typed, ui, wcfg, value, ids, quiet, engine>>

\* window.rs 397-402: after the closure, reset_window_target (renderer/sdl/
\* window.rs 474-476), the pops, and the closure's result is returned.
leave_window(ok) ==
    /\ wstack # <<>>
    /\ renderer' = [renderer EXCEPT !.window_target = renderer.primary_window_id]
    /\ setting_stack' = setting_stack - 1
    /\ cursor_stack' = cursor_stack - 1
    /\ wstack' = SubSeq(wstack, 1, Len(wstack) - 1)
    /\ ret' = WindowRet(ok, wstack[Len(wstack)].style0, wstack[Len(wstack)].cursor0)
    /\ UNCHANGED <<scene, mouse, pmouse, keys, typed, ui, wcfg, value, ids, quiet, engine>>

\* The closure returned Ok.
exit_window ==
    /\ AtOp("end")
    /\ leave_window(TRUE)
    /\ ix' = ix + 1
    /\ UNCHANGED pc

\* The closure returned an error, which with_window returns in its turn.
unwind_window ==
    /\ pc = "error"
    /\ leave_window(FALSE)
    /\ pc' = IF Len(wstack) = 1 THEN "stopped" ELSE "error"
    /\ UNCHANGED ix

\* PixState::push_id / pop_id: the ids the application pushes.
PushedIds == {1, 2}
push_id ==
    /\ AtOp("push_id")
    /\ \E x \in PushedIds : ui' = [ui EXCEPT !.id_stack = Append(@, x)]
    /\ ix' = ix + 1
    /\ UNCHANGED <<scene, pc, mouse, pmouse, keys, typed, wcfg, value, setting_stack,
                   cursor_stack, wstack, renderer, ret, ids, quiet, engine>>

pop_id ==
    /\ AtOp("pop_id")
    /\ ui' = [ui EXCEPT !.id_stack = SubSeq(@, 1, Len(@) - 1)]
    /\ ix' = ix + 1
    /\ UNCHANGED <<scene, pc, mouse, pmouse, keys, typed, wcfg, value, setting_stack,
                   cursor_stack, wstack, renderer, ret, ids, quiet, engine>>

\* A MouseState::clear that leaves the clicked buttons in place.
mouse_keep(m) == [m EXCEPT !.xrel = 0, !.yrel = 0]

\* MouseState::clear (core/state.rs 135-137)
mouse_clear(m) == [m EXCEPT !.clicked = {}, !.xrel = 0, !.yrel = 0]
\* The end of the frame clears the key entered and the text typed this frame.
clear_entered(k) == [k EXCEPT !.entered = None]

\* PixState::post_update (core/state.rs 119-121) and the end of the frame.
post_update ==
    /\ pc = "update"
    /\ ix = Len(Program(scene)) + 1
    /\ pc' = "events"
    /\ ix' = 1
    /\ mouse' = mouse_clear(mouse)
    /\ pmouse' = mouse.pos
    /\ keys' = clear_entered(keys)
    /\ typed' = None
    /\ ret' = NoRet
    /\ ids' = EmptyMap
    /\ quiet' = TRUE
    /\ UNCHANGED <<scene, ui, wcfg, value, setting_stack, cursor_stack, wstack, renderer, engine>>

(***************************************************************************)
(* Spec: applications of two widgets, bare and inside with_window, under   *)
(* mouse and key input.                                                    *)
(***************************************************************************)
Init ==
    \E sc \in {"sliders", "slider_list", "list_drag", "slider_edit", "windows"} : InitScene(sc, SceneCfg(sc), StartValues(SceneCfg(sc)))

MouseEvents ==
    \/ \E p \in ScenePoints(scene, wcfg) : set_pos(p)
    \/ mouse_press("Left")
    \/ mouse_release("Left")

KeyEvents ==
    \/ \E e \in SceneKeys(scene) : key_press(e[1], e[2])
    \/ \E e \in SceneKeys(scene) : key_release(e[1], e[2])

Next ==
    \/ MouseEvents
    \/ KeyEvents
    \/ pre_update
    \/ call_slider
    \/ call_drag
    \/ call_list
    \/ enter_window
    \/ exit_window
    \/ unwind_window
    \/ post_update

Spec == Init /\ [][Next]_vars

(***************************************************************************)
(* SpecSlider: one slider of type i32 or f64, dragged and edited in place. *)
(***************************************************************************)
\* The slider's type, range and bound value at start: 0.5 in [0.0, 1.0],
\* and 0 in [-2, 1].
InitSlider ==
    \E case \in {[ty |-> "f64", min |-> 0, max |-> Den, v |-> Den \div 2],
                 [ty |-> "i32", min |-> -2, max |-> 1, v |-> 0]} :
        InitScene("slider",
                  [w \in {"S"} |-> SliderCfg(LabelA, case.ty, case.min, case.max, <<0, 0>>)],
                  [w \in {"S"} |-> <<case.v>>])

NextSlider ==
    \/ MouseEvents
    \/ KeyEvents
    \/ pre_update
    \/ call_slider
    \/ post_update

SpecSlider == InitSlider /\ [][NextSlider]_vars

(***************************************************************************)
(* SpecEdit: one i32 slider edited in place: typing, Return, Escape, and   *)
(* the application disabling the widgets.                                  *)
(***************************************************************************)
InitEdit ==
    InitScene("edit", [w \in {"S"} |-> SliderCfg(LabelA, "i32", -2, 1, <<0, 0>>)],
              [w \in {"S"} |-> <<0>>])

NextEdit ==
    \/ MouseEvents
    \/ KeyEvents
    \/ \E ch \in TypedChars : text_input(ch)
    \/ \E b \in BOOLEAN : disable(b)
    \/ pre_update
    \/ call_slider
    \/ post_update

SpecEdit == InitEdit /\ [][NextEdit]_vars

(***************************************************************************)
(* SpecList: one select list longer than its viewport, under mouse, wheel  *)
(* and arrow keys.                                                         *)
(***************************************************************************)
InitList == InitScene("list", SceneCfg("list"), StartValues(SceneCfg("list")))

NextList ==
    \/ MouseEvents
    \/ KeyEvents
    \/ \E dy \in {-1, 1} : mouse_wheel(dy)
    \/ pre_update
    \/ call_list
    \/ post_update

SpecList == InitList /\ [][NextList]_vars

(***************************************************************************)
(* SpecLabels: three sliders, two of them with any label and under any     *)
(* pushed id.                                                              *)
(***************************************************************************)
\* Longest label drawn from the characters "C" and "#".
MaxLabel == 3
Labels == {LabelA, LabelB} \cup UNION {[1..n -> {"C", Hash}] : n \in 0..MaxLabel}

InitLabels ==
    \E la \in Labels, lb \in Labels :
        InitScene("labels",
                  [w \in {"S", "T", "U"} |->
                     SliderCfg(IF w = "S" THEN la ELSE IF w = "T" THEN lb ELSE LabelA,
                               "i32", 0, TrackW, <<0, 0>>)],
                  [w \in {"S", "T", "U"} |-> <<0>>])

NextLabels ==
    \/ pre_update
    \/ push_id
    \/ pop_id
    \/ call_slider
    \/ post_update

SpecLabels == InitLabels /\ [][NextLabels]_vars

(***************************************************************************)
(* Properties.                                                             *)
(***************************************************************************)
\* The last call that returned is a call of the widget function fn.
Returned(fn) == ret.fn = fn
\* The arguments and the bound value of the widget of the last call.
RetCfg == wcfg[ret.w]
RetValue == value[ret.w]
\* The last call was a slider call that took the non-editing path.
SliderPath ==
    /\ Returned("advanced_slider")
    /\ ~(is_editing(ret.ui0, ret.id) /\ ~ret.ui0.disabled)

C2_Capture ==
    [][/\ \A id \in ui.active :
            (is_down(mouse, "Left") /\ is_down(mouse', "Left")) => id \in ui'.active
       /\ (pc = "update" /\ pc' = "events" /\ ~is_down(mouse, "Left")) => ui.active = {}
      ]_vars

RetOffset == Clamp(mouse.pos[1] - track_rect(RetCfg).x, 0, TrackW)
RetScroll == scroll_of(ui, ret.id)[2]
RetRowH == line_height(RetCfg)
RetViewH == list_content(RetCfg).h
\* A select_list call on a focused list in a frame in which Up or Down was
\* entered.
ListKeyFrame ==
    /\ Returned("select_list") /\ ret.ok
    /\ is_focused(ret.ui0, ret.id)
    /\ key_entered(keys) \in {"Up", "Down"}

C6_Balanced ==
    ret.fn # None => (setting_stack = ret.style0 /\ cursor_stack = ret.cursor0)

\* C7 (identity): two slider calls of a frame get the same ElementId if and
\* only if their full labels and the ID stacks they are made under are the
\* same.
C7_Identity ==
    \A w1 \in DOMAIN ids, w2 \in DOMAIN ids :
        (ids[w1].id = ids[w2].id)
        <=> (wcfg[w1].label = wcfg[w2].label /\ ids[w1].stack = ids[w2].stack)

\* In one frame "C##a" and "C##b" under the same pushed id got distinct
\* ids, and "C##a" under a pushed id and "C##a" under none got distinct ids.
C7_Witness ==
    /\ DOMAIN ids = {"S", "T", "U"}
    /\ wcfg["S"].label = LabelA /\ wcfg["T"].label = LabelB
    /\ ids["S"].stack = ids["T"].stack
    /\ ids["S"].id # ids["T"].id
    /\ ids["S"].id # ids["U"].id

\* C8 (displayed label): the text a slider displays is the part of its
\* label before the first "##" marker.
C8_Displayed ==
    Returned("advanced_slider") => ret.shown = BeforeMarker(RetCfg.label)

\* C9 (hover protocol): after a widget call the widget is hovered only if
\* the mouse is inside its hit rectangle and no other element is active.
C9_Hover ==
    (ret.fn \in {"advanced_slider", "advanced_drag", "select_list"} /\ ret.ok)
    => (is_hovered(ui, ret.id)
        => /\ ContainsPoint(IF RetCfg.kind = "list" THEN list_content(RetCfg)
                                                       ELSE track_rect(RetCfg),
                         mouse.pos)
           /\ ~has_other_active(ret.ui0, ret.id))

\* C10 (commit of an unparseable buffer): a slider call none of whose
\* rendering steps failed and that commits an ended edit whose buffer does
\* not parse as T returns no error, discards the edit state and leaves the
\* bound value as it was.
C10_Commit ==
    (/\ SliderPath /\ ret.fail = "none"
     /\ HasText(ret.ui0, ret.id)
     /\ parse(RetCfg.ty, text_edit(ret.ui0, ret.id, <<>>)) = <<>>)
    => /\ ret.ok
       /\ ~HasText(ui, ret.id)
       /\ ~is_editing(ui, ret.id)
       /\ RetValue = ret.value0

\* C11 (changed flag): a slider call returns true if and only if it left
\* the bound value different from its value at entry.
C11_Changed ==
    (Returned("advanced_slider") /\ ret.ok) => (ret.changed <=> RetValue # ret.value0)

(***************************************************************************)
(* SpecInput: the input state across frames: mouse buttons pressed,        *)
(* released and clicked, keys pressed and released, around one slider.     *)
(***************************************************************************)
\* KeyState::was_entered (keys.rs 29-31)
was_entered(k, key) == k.entered = key
\* MouseState::click (core/state.rs 177-180); the time of the click is left
\* out.
click(m, btn) == [m EXCEPT !.clicked = @ \cup {btn}]

mouse_click(btn) ==
    /\ pc = "events"
    /\ mouse' = click(mouse, btn)
    /\ quiet' = FALSE
    /\ UNCHANGED <<scene, pc, ix, pmouse, keys, typed, ui, wcfg, value, setting_stack,
                   cursor_stack, wstack, renderer, ret, ids, engine>>

InitInput == InitScene("input", SceneCfg("input"), StartValues(SceneCfg("input")))

NextInput ==
    \/ MouseEvents
    \/ mouse_click("Left")
    \/ KeyEvents
    \/ pre_update
    \/ call_slider
    \/ post_update

SpecInput == InitInput /\ [][NextInput]_vars

C13_Entered ==
    [][(pc = "events" /\ pc' = "events")
       => \A e \in SceneKeys(scene) :
              was_entered(keys, e[1]) => was_entered(keys', e[1])]_vars

\* C14 (focus outlives capture): a slider call that finds its slider
\* captured after the mouse button was released leaves the slider focused
\* and not active, and an id loses the focus only to another id.
C14_Focus ==
    [][/\ (/\ Returned("advanced_slider") /\ ret.ok
           /\ is_active(ret.ui0, ret.id) /\ ~is_down(mouse, "Left"))
          => (is_focused(ui, ret.id) /\ ~is_active(ui, ret.id))
       /\ \A id \in ui.focused : id \notin ui'.focused => ui'.focused # {}]_vars

\* C15 (numeric-entry branch): a slider call that finds its slider active
\* with CTRL held begins editing for its id and returns false with the value
\* the mouse has no part in; a call on the editing path leaves the bound
\* value as it was, and with Return or Escape entered it ends editing.
C15_Entry ==
    /\ (SliderPath /\ ret.ok /\ is_active(ret.ui0, ret.id) /\ mod_down(keys, "CTRL"))
       => /\ is_editing(ui, ret.id)
          /\ ~ret.changed
          /\ RetValue = <<Clamp(parse_text_edit_value(ret.ui0, ret.id, RetCfg.ty,
                                                      ret.value0[1]),
                                RetCfg.min, RetCfg.max)>>
          /\ ~HasText(ret.ui0, ret.id) => RetValue = ret.value0
    /\ (Returned("advanced_slider") /\ ~SliderPath /\ ret.ok)
       => /\ RetValue = ret.value0
          /\ key_entered(keys) \in {"Return", "Escape"} => ~is_editing(ui, ret.id)
          /\ key_entered(keys) \notin {"Return", "Escape"} => is_editing(ui, ret.id)

\* A captured slider was called with CTRL held and the mouse away from the
\* position of its value: it began editing and kept the value.
C15_Witness ==
    /\ SliderPath /\ ret.ok /\ is_active(ret.ui0, ret.id) /\ mod_down(keys, "CTRL")
    /\ ~is_editing(ret.ui0, ret.id) /\ is_editing(ui, ret.id)
    /\ slider_map(RetCfg, track_rect(RetCfg), mouse.pos[1]) # ret.value0[1]
    /\ RetValue = ret.value0

(***************************************************************************)
(* SpecColors: widget_colors (gui.rs 130-203) applied to one widget id in  *)
(* every interaction state and for every surface kind.  A colour is a      *)
(* theme colour by name or the blend of a colour over another at a         *)
(* percentage.                                                             *)
(***************************************************************************)
Named(n) == [kind |-> "named", name |-> n, over |-> None, pct |-> 0]
\* Color::blended: this colour over bg at the given opacity, in percent.
blended(c, bg, pct) == [kind |-> "blend", name |-> c, over |-> bg, pct |-> pct]

\* The surface kinds of gui.rs 148-157 and one other ColorType, which the
\* last arm of the match turns into a panic.
Surfaces == {"Background", "Surface", "Primary", "PrimaryVariant", "Secondary",
             "SecondaryVariant", "Error"}
\* gui.rs 158-164
Branded(sf) == sf \in {"Primary", "PrimaryVariant", "Secondary", "SecondaryVariant"}
\* gui.rs 148-157: the surface colour and its "on" colour.
surface_bg(sf) ==
    Named(CASE sf = "Background" -> "background" [] sf = "Surface" -> "surface"
            [] sf = "Primary" -> "primary" [] sf = "PrimaryVariant" -> "primary_variant"
            [] sf = "Secondary" -> "secondary"
            [] sf = "SecondaryVariant" -> "secondary_variant" [] sf = "Error" -> "error")
surface_overlay(sf) ==
    Named(CASE sf = "Background" -> "on_background" [] sf = "Surface" -> "on_surface"
            [] sf \in {"Primary", "PrimaryVariant"} -> "on_primary"
            [] sf \in {"Secondary", "SecondaryVariant"} -> "on_secondary"
            [] sf = "Error" -> "on_error")

\* gui.rs 166-177
widget_stroke(u, id, sf, bg, stroke_overlay) ==
    IF is_focused(u, id) THEN stroke_overlay
    ELSE IF u.disabled THEN blended(stroke_overlay, bg, 18)
    ELSE blended(stroke_overlay, bg, 38)
\* gui.rs 179-194
widget_bg(u, id, sf, bg, bg_overlay) ==
    IF is_focused(u, id) THEN blended(bg_overlay, bg, 12)
    ELSE IF is_active(u, id) THEN blended(bg_overlay, bg, 8)
    ELSE IF is_hovered(u, id)
      THEN (IF Branded(sf) THEN blended(bg_overlay, bg, 12) ELSE blended(bg_overlay, bg, 4))
    ELSE IF Branded(sf) /\ u.disabled THEN blended(surface_overlay(sf), bg, 38)
    ELSE bg
\* gui.rs 196-200: the foreground is blended over the background just chosen.
widget_fg(u, sf, bg) ==
    IF u.disabled THEN blended(surface_overlay(sf), bg, 38)
    ELSE blended(surface_overlay(sf), bg, 87)
\* [stroke, bg, fg], or <<>> where the code panics.
widget_colors(u, id, sf) ==
    IF sf \notin Surfaces THEN <<>>
    ELSE <<widget_stroke(u, id, sf, surface_bg(sf),
                         IF Branded(sf) THEN blended(surface_bg(sf), Named("WHITE"), 60)
                         ELSE surface_overlay(sf)),
           widget_bg(u, id, sf, surface_bg(sf),
                     IF Branded(sf) THEN Named("WHITE") ELSE surface_overlay(sf)),
           widget_fg(u, sf,
                     widget_bg(u, id, sf, surface_bg(sf),
                               IF Branded(sf) THEN Named("WHITE")
                               ELSE surface_overlay(sf)))>>

\* The widget of the scene: its id and its surface kind.
ColorId == get_id(NewUi, StrKey(LabelA))

call_widget_colors ==
    /\ scene = "colors" /\ pc = "update"
    /\ pc' = "events"
    /\ ret' = [NoRet EXCEPT !.fn = "widget_colors", !.w = "W", !.id = ColorId,
                            !.ok = wcfg["W"].surface \in Surfaces,
                            !.shown = widget_colors(ui, ColorId, wcfg["W"].surface),
                            !.ui0 = ui]
    /\ UNCHANGED <<scene, ix, mouse, pmouse, keys, typed, ui, wcfg, value, setting_stack,
                   cursor_stack, wstack, renderer, ids, quiet, engine>>

\* The state after construction for the scenes that start inside a frame:
\* InitScene with the position p and the interaction store u.
InitAt(sc, p, u, cf) ==
    /\ scene = sc /\ pc = p /\ ix = 1
    /\ mouse = [pos |-> Outside, pressed |-> {}, clicked |-> {}, xrel |-> 0, yrel |-> 0]
    /\ pmouse = Outside
    /\ keys = [entered |-> None, pressed |-> {}, mods_pressed |-> {}]
    /\ typed = None
    /\ ui = u
    /\ wcfg = cf
    /\ value = [w \in DOMAIN cf |-> <<>>]
    /\ setting_stack = 0 /\ cursor_stack = 0 /\ wstack = <<>>
    /\ renderer = NewRenderer /\ ret = NoRet /\ ids = EmptyMap /\ quiet = TRUE
    /\ engine = NewEngine

InitColors ==
    \E h, a, f \in SUBSET {ColorId}, d \in BOOLEAN, sf \in Surfaces \cup {"Other"} :
        InitAt("colors", "update",
               [NewUi EXCEPT !.hovered = h, !.active = a, !.focused = f, !.disabled = d],
               [w \in {"W"} |-> [kind |-> "colors", surface |-> sf]])

SpecColors == InitColors /\ [][call_widget_colors]_vars

\* The opacity of the overlay on a colour: none on a theme colour.
Opacity(c) == c.pct
\* C16 (opacity table): for every valid surface kind widget_colors blends
\* the background overlay at 12% when focused, else 8% when active, else 4%
\* when hovered; when disabled the foreground is at 38% and the stroke of an
\* unfocused widget at 18%, and the background of an idle widget carries an
\* overlay only when disabled, at 38%.
C16_Opacity ==
    (Returned("widget_colors") /\ ret.ok)
    => /\ is_focused(ret.ui0, ret.id) => Opacity(ret.shown[2]) = 12
       /\ (~is_focused(ret.ui0, ret.id) /\ is_active(ret.ui0, ret.id))
          => Opacity(ret.shown[2]) = 8
       /\ (/\ ~is_focused(ret.ui0, ret.id) /\ ~is_active(ret.ui0, ret.id)
           /\ is_hovered(ret.ui0, ret.id))
          => Opacity(ret.shown[2]) = 4
       /\ (/\ ~is_focused(ret.ui0, ret.id) /\ ~is_active(ret.ui0, ret.id)
           /\ ~is_hovered(ret.ui0, ret.id))
          => Opacity(ret.shown[2]) \in (IF ret.ui0.disabled THEN {0, 38} ELSE {0})
       /\ ret.ui0.disabled
          => /\ Opacity(ret.shown[3]) = 38
             /\ ~is_focused(ret.ui0, ret.id) => Opacity(ret.shown[1]) = 18

(***************************************************************************)
(* SpecTextures: the texture table of the renderer (renderer/sdl.rs        *)
(* 205-261, 414-441).  textures is the Vec of live textures, each named by *)
(* the number of its creation; a texture id is an index into it, from 0.   *)
(* sdl is TRUE when the SDL call inside the operation fails.               *)
(***************************************************************************)
MaxTex == 3
TextureOps == {"create_texture", "delete_texture", "update_texture", "texture", "image",
               "image_resized"}

RenderResult(r, err) == [renderer |-> r, err |-> err]
\* Vec::remove(id): the textures after it move down by one.
vec_remove(v, id) == SubSeq(v, 1, id) \o SubSeq(v, id + 2, Len(v))

\* sdl.rs 205-216
create_texture(r, sdl) ==
    IF sdl THEN RenderResult(r, "Sdl")
    ELSE RenderResult([r EXCEPT !.textures = Append(@, r.created + 1), !.created = @ + 1],
                      None)
\* sdl.rs 219-228
delete_texture(r, id) ==
    IF id < Len(r.textures)
      THEN RenderResult([r EXCEPT !.textures = vec_remove(@, id)], None)
      ELSE RenderResult(r, "InvalidTexture")
\* sdl.rs 231-247
update_texture(r, id, sdl) ==
    IF id < Len(r.textures) THEN RenderResult(r, IF sdl THEN "Sdl" ELSE None)
    ELSE RenderResult(r, "InvalidTexture")
\* sdl.rs 250-261
texture(r, id, sdl) ==
    IF id < Len(r.textures) THEN RenderResult(r, IF sdl THEN "Sdl" ELSE None)
    ELSE RenderResult(r, "InvalidTexture")
\* sdl.rs 414-426
image(r, id, sdl) ==
    IF id < Len(r.textures) /\ sdl THEN RenderResult(r, "Sdl") ELSE RenderResult(r, None)
\* sdl.rs 429-441
image_resized(r, id, sdl) ==
    IF id < Len(r.textures) /\ sdl THEN RenderResult(r, "Sdl") ELSE RenderResult(r, None)

texture_op(op, r, id, sdl) ==
    CASE op = "create_texture" -> create_texture(r, sdl)
      [] op = "delete_texture" -> delete_texture(r, id)
      [] op = "update_texture" -> update_texture(r, id, sdl)
      [] op = "texture" -> texture(r, id, sdl)
      [] op = "image" -> image(r, id, sdl)
      [] op = "image_resized" -> image_resized(r, id, sdl)

\* One renderer call on a texture id; create_texture takes none and returns
\* the id of the new texture.
call_texture(op, id, sdl) ==
    /\ scene = "textures" /\ pc = "update"
    /\ op = "create_texture" => (id = Len(renderer.textures) /\ renderer.created < MaxTex)
    /\ renderer' = texture_op(op, renderer, id, sdl).renderer
    /\ ret' = [NoRet EXCEPT !.fn = op, !.id = id,
                            !.ok = texture_op(op, renderer, id, sdl).err = None,
                            !.fail = texture_op(op, renderer, id, sdl).err,
                            !.value0 = renderer.textures]
    /\ UNCHANGED <<scene, pc, ix, mouse, pmouse, keys, typed, ui, wcfg, value,
                   setting_stack, cursor_stack, wstack, ids, quiet, engine>>

InitTextures == InitAt("textures", "update", NewUi, EmptyMap)

NextTextures == \E op \in TextureOps, id \in 0 .. MaxTex, sdl \in BOOLEAN : call_texture(op, id, sdl)

SpecTextures == InitTextures /\ [][NextTextures]_vars

\* C17 (invalid texture id): delete_texture, update_texture, texture, image
\* and image_resized called with an id that is not an index of the texture
\* table return the InvalidTexture error and leave the table as it was.
C17_Invalid ==
    (/\ ret.fn \in TextureOps \ {"create_texture"}
     /\ ret.id >= Len(ret.value0))
    => (ret.fail = "InvalidTexture" /\ renderer.textures = ret.value0)

(***************************************************************************)
(* SpecAudio: enqueue_audio (renderer/sdl.rs 444-451) against the audio    *)
(* device, which plays the queue from its own thread.  size is the queue   *)
(* in bytes, queued the samples submitted so far and played the bytes the  *)
(* device has taken.  The caller is at "update" outside the call, at       *)
(* "audio_wait" in the loop of line 447 and at "audio_queue" before line   *)
(* 450.                                                                    *)
(***************************************************************************)
SampleRate == 6
MaxSamples == 2
MaxQueued == 8
\* The queue holds f32 samples (sdl.rs 39).
BytesPerSample == 4

\* A loop that never waits.
audio_full_never(r) == FALSE
\* sdl.rs 446-447: the condition of the waiting loop.
audio_full(r) == r.audio_device.size > SampleRate
\* sdl.rs 450: AudioQueue::queue of n samples.
audio_queue(r, n) ==
    [r EXCEPT !.audio_device.size = @ + BytesPerSample * n, !.audio_device.queued = @ + n]

\* The call, up to the first test of the loop.
enqueue_audio(n) ==
    /\ scene = "audio" /\ pc = "update"
    /\ renderer.audio_device.queued + n <= MaxQueued
    /\ pc' = "audio_wait"
    /\ ret' = [NoRet EXCEPT !.fn = "enqueue_audio", !.id = n, !.ok = FALSE]
    /\ UNCHANGED <<scene, ix, mouse, pmouse, keys, typed, ui, wcfg, value, setting_stack,
                   cursor_stack, wstack, renderer, ids, quiet, engine>>
\* sdl.rs 447-449: the loop is left once the queue is not over the rate;
\* until then the caller sleeps.
enqueue_audio_wait ==
    /\ scene = "audio" /\ pc = "audio_wait"
    /\ ~audio_full(renderer)
    /\ pc' = "audio_queue"
    /\ UNCHANGED <<scene, ix, mouse, pmouse, keys, typed, ui, wcfg, value, setting_stack,
                   cursor_stack, wstack, renderer, ret, ids, quiet, engine>>
\* sdl.rs 450
enqueue_audio_queue ==
    /\ scene = "audio" /\ pc = "audio_queue"
    /\ pc' = "update"
    /\ renderer' = audio_queue(renderer, ret.id)
    /\ ret' = [ret EXCEPT !.ok = TRUE, !.value0 = <<renderer.audio_device.size>>]
    /\ UNCHANGED <<scene, ix, mouse, pmouse, keys, typed, ui, wcfg, value, setting_stack,
                   cursor_stack, wstack, ids, quiet, engine>>
\* The device plays k samples of the queue.
audio_play(k) ==
    /\ scene = "audio"
    /\ BytesPerSample * k <= renderer.audio_device.size
    /\ renderer' = [renderer EXCEPT !.audio_device.size = @ - BytesPerSample * k,
                                    !.audio_device.played = @ + BytesPerSample * k]
    /\ UNCHANGED <<scene, pc, ix, mouse, pmouse, keys, typed, ui, wcfg, value,
                   setting_stack, cursor_stack, wstack, ret, ids, quiet, engine>>

InitAudio == InitAt("audio", "update", NewUi, EmptyMap)

NextAudio ==
    \/ \E n \in 1 .. MaxSamples : enqueue_audio(n)
    \/ enqueue_audio_wait
    \/ enqueue_audio_queue
    \/ \E k \in 1 .. MaxSamples : audio_play(k)

SpecAudio == InitAudio /\ [][NextAudio]_vars

MaxFrames == 2
MaxEvents == 2

Event(type, id) == [type |-> type, id |-> id]
EngineEvents == {Event("Quit", 0), Event("AppTerminating", 0), Event("WinClose", 1),
                 Event("WinClose", 2), Event("KeyPress", 0)}
EventBatches == UNION {[1 .. n -> EngineEvents] : n \in 0 .. MaxEvents}

At(p, e) == [pc |-> p, engine |-> e]
\* return from run with the result res
Return(e, res) == At("returned", [e EXCEPT !.result = res])
Called(e, cb, ok) == [e EXCEPT !.called = cb, !.failed = ~ok]

\* engine.rs 58-60
run_check(e, cf) ==
    IF cf.width = 0 \/ cf.height = 0 THEN Return(e, "Err:dimensions") ELSE At("on_start", e)
\* engine.rs 63-66
run_on_start(e, ok) ==
    IF ok THEN At("outer", Called([e EXCEPT !.on_start = @ + 1], "on_start", ok))
    ELSE Return(Called([e EXCEPT !.on_start = @ + 1], "on_start", ok), "Err:on_start")
\* engine.rs 74 and 143
run_outer(e) == IF e.should_close THEN Return(e, "Ok") ELSE At("inner", e)
\* engine.rs 77-82
run_poll(e, batch, ok) ==
    IF ok THEN At("fold", [e EXCEPT !.events = <<>>, !.polled = batch, !.pending = batch])
    ELSE Return([e EXCEPT !.events = <<>>], "Err:poll")
\* engine.rs 84-93: the first pending event.
closes(ev) == ev.type \in {"Quit", "AppTerminating"} \/ (ev.type = "WinClose" /\ ev.id = 1)
run_fold(e) ==
    At("fold", [e EXCEPT !.events = Append(@, Head(e.pending)), !.pending = Tail(@),
                         !.should_close = @ \/ closes(Head(e.pending))])
\* Driver::close_window of engine.rs 91
close_window(r, ev) ==
    IF ev.type = "WinClose" /\ ev.id # 1 THEN [r EXCEPT !.windows = @ \ {ev.id}] ELSE r
\* An on_update whose error is not looked at.
run_on_update_unchecked(e, ok) ==
    At("present", Called([e EXCEPT !.on_update = @ + 1], "on_update", ok))
\* engine.rs 108-115
run_on_update(e, ok) ==
    IF ok THEN At("present", Called([e EXCEPT !.on_update = @ + 1], "on_update", ok))
    ELSE Return(Called([e EXCEPT !.on_update = @ + 1], "on_update", ok), "Err:on_update")
\* A frame that is never presented.
run_present_skipped(e, out) == At("inner", e)
\* engine.rs 118-134: out is the failing renderer call, or "ok".
run_present(e, out) ==
    CASE out = "copy_draw_target" -> Return(e, "Err:copy_draw_target")
      [] out = "set_title" -> Return([e EXCEPT !.presented = @ + 1], "Err:set_title")
      [] OTHER -> At("inner", [e EXCEPT !.presented = @ + 1])
\* engine.rs 137-140
run_on_stop(e, ok) ==
    IF ok THEN At("outer", Called([e EXCEPT !.on_stop = @ + 1], "on_stop", ok))
    ELSE Return(Called([e EXCEPT !.on_stop = @ + 1], "on_stop", ok), "Err:on_stop")

\* One step of run from position p to At(...) x, with the renderer r.
Step(p, x, r) ==
    /\ scene = "engine" /\ pc = p
    /\ pc' = x.pc
    /\ engine' = x.engine
    /\ renderer' = r
    /\ UNCHANGED <<scene, ix, mouse, pmouse, keys, typed, ui, wcfg, value, setting_stack,
                   cursor_stack, wstack, ret, ids, quiet>>

check == Step("run", run_check(engine, wcfg["screen"]), renderer)
on_start(ok) == Step("on_start", run_on_start(engine, ok), renderer)
outer == Step("outer", run_outer(engine), renderer)
inner_done == engine.should_close /\ Step("inner", At("on_stop", engine), renderer)
poll(batch, ok) ==
    /\ ~engine.should_close /\ engine.on_update < MaxFrames
    /\ Step("inner", run_poll(engine, batch, ok), renderer)
fold ==
    /\ engine.pending # <<>>
    /\ Step("fold", run_fold(engine), close_window(renderer, Head(engine.pending)))
fold_done == engine.pending = <<>> /\ Step("fold", At("on_update", engine), renderer)
on_update(ok) == Step("on_update", run_on_update(engine, ok), renderer)
present(out) == Step("present", run_present(engine, out), renderer)
on_stop(ok) == Step("on_stop", run_on_stop(engine, ok), renderer)

InitEngine ==
    \E w, h \in {0, 1} :
        InitAt("engine", "run", NewUi,
               [x \in {"screen"} |-> [kind |-> "screen", width |-> w, height |-> h]])

NextEngine ==
    \/ check
    \/ \E ok \in BOOLEAN : on_start(ok)
    \/ outer
    \/ inner_done
    \/ \E batch \in EventBatches, ok \in BOOLEAN : poll(batch, ok)
    \/ fold
    \/ fold_done
    \/ \E ok \in BOOLEAN : on_update(ok)
    \/ \E out \in {"ok", "copy_draw_target", "set_title"} : present(out)
    \/ \E ok \in BOOLEAN : on_stop(ok)

SpecEngine == InitEngine /\ [][NextEngine]_vars

\* C19 (callback error terminates the run): once on_start or on_update has
\* returned an error, run has returned that error; the frame of a failed
\* on_update is not presented, on_stop is not called, and no callback is
\* called after the failed one.
C19_Error ==
    /\ (engine.failed /\ engine.called = "on_start")
       => /\ pc = "returned" /\ engine.result = "Err:on_start"
          /\ engine.on_start = 1 /\ engine.on_update = 0 /\ engine.on_stop = 0
          /\ engine.presented = 0
    /\ (engine.failed /\ engine.called = "on_update")
       => /\ pc = "returned" /\ engine.result = "Err:on_update"
          /\ engine.presented = engine.on_update - 1
          /\ engine.on_stop = 0
    /\ pc = "returned" => ~ENABLED NextEngine

\* on_update failed in the second frame: run returned its error with one
\* frame presented and on_stop not called.
C19_Witness ==
    /\ scene = "engine" /\ pc = "returned"
    /\ engine.called = "on_update" /\ engine.failed
    /\ engine.result = "Err:on_update"
    /\ engine.on_update = 2 /\ engine.presented = 1 /\ engine.on_stop = 0

\* C20 (frame-loop ordering), as the code has it: on_start is called at
\* most once and before any on_update; on_update is called only when every
\* polled event has been handled, and each frame is presented after its
\* on_update; on_stop is called at most once, only after a close event and
\* after the frame of that event was presented; run returns Ok only after
\* on_stop has succeeded, and returns the error of the step that failed
\* otherwise, on_stop's included.
C20_Order ==
    /\ engine.on_start <= 1 /\ engine.on_stop <= 1
    /\ engine.on_update > 0 => engine.on_start = 1
    /\ pc \in {"on_update", "present"}
       => (engine.pending = <<>> /\ engine.events = engine.polled)
    /\ engine.presented <= engine.on_update /\ engine.on_update <= engine.presented + 1
    /\ pc \in {"outer", "inner", "fold", "on_update", "on_stop"}
       => engine.presented = engine.on_update
    /\ engine.should_close <=> \E i \in 1 .. Len(engine.events) : closes(engine.events[i])
    /\ engine.on_stop = 1
       => /\ engine.should_close
          /\ engine.on_update > 0 /\ engine.presented = engine.on_update
          /\ pc \in {"outer", "returned"}
          /\ pc = "returned" => engine.result \in {"Ok", "Err:on_stop"}
    /\ (pc = "returned" /\ engine.result = "Ok") => (engine.on_stop = 1 /\ ~engine.failed)
    /\ (pc = "returned" /\ engine.result = "Err:on_stop")
       => (engine.called = "on_stop" /\ engine.failed)
    /\ (pc = "returned" /\ engine.should_close /\ engine.on_stop = 0)
       => engine.result \in {"Err:on_update", "Err:copy_draw_target", "Err:set_title"}

\* A frame polled a key press, a Quit and the close of the second window:
\* all three were handled, the frame was updated and presented, on_stop ran
\* once and run returned Ok.
C20_Witness ==
    /\ scene = "engine" /\ pc = "returned" /\ engine.result = "Ok"
    /\ engine.on_start = 1 /\ engine.on_update = 2 /\ engine.presented = 2
    /\ engine.on_stop = 1
    /\ Len(engine.events) = 2 /\ engine.events[1].type = "Quit"
    /\ engine.events[2] = Event("WinClose", 2)
    /\ 2 \notin renderer.windows

\* C20 as stated: on_start has been called exactly once before any
\* on_update, and a run that saw a close event and completed the frame of
\* that event has called on_stop exactly once and returned Ok.
C20_Stated ==
    /\ engine.on_update > 0 => engine.on_start = 1
    /\ (/\ pc = "returned" /\ engine.should_close
        /\ engine.presented = engine.on_update
        /\ engine.result # "Err:set_title")
       => (engine.on_stop = 1 /\ engine.result = "Ok")

(***************************************************************************)
(* SpecRows: one select list whose viewport holds two rows and 0 to        *)
(* ViewSlack pixels more, under mouse and arrow keys, without the wheel.   *)
(***************************************************************************)
InitRows ==
    \E cut \in 0 .. ViewSlack :
        InitScene("list",
                  [w \in {"L"} |-> [ListCfg(<<>>, <<0, 0>>, NItems) EXCEPT !.rect.h = @ - cut]],
                  [w \in {"L"} |-> <<>>])

NextRows ==
    \/ MouseEvents
    \/ KeyEvents
    \/ pre_update
    \/ call_list
    \/ post_update

SpecRows == InitRows /\ [][NextRows]_vars

\* The scroll offset the last call found, and the rows it visited.
RetTop == scroll_of(ret.ui0, ret.id)[2]
RetRows == shown_rows(RetCfg, RetTop)
\* The mouse lies in the part of row i that is inside the content viewport.
MouseInRow(i) ==
    /\ ContainsPoint(list_content(RetCfg), mouse.pos)
    /\ mouse.pos[2] - list_content(RetCfg).y + RetTop >= i * RetRowH
    /\ mouse.pos[2] - list_content(RetCfg).y + RetTop < (i + 1) * RetRowH
\* The last call changed the selection and no arrow key could have.
MouseSelected ==
    /\ Returned("select_list") /\ ret.ok /\ RetValue # ret.value0
    /\ ~(is_focused(ret.ui0, ret.id) /\ key_entered(keys) \in {"Up", "Down"})

MaxScroll == 3
ScrollCfg == [kind |-> "scroll", label |-> LabelA, rect |-> Rect(0, 0, SCROLL_SIZE + 4, 4),
              width |-> SCROLL_SIZE + 4 + MaxScroll, height |-> 4 + MaxScroll]

\* A MouseWheel event along x.
mouse_wheel_x(dx) ==
    /\ pc = "events"
    /\ mouse' = [mouse EXCEPT !.xrel = dx]
    /\ quiet' = FALSE
    /\ UNCHANGED <<scene, pc, ix, pmouse, keys, typed, ui, wcfg, value, setting_stack,
                   cursor_stack, wstack, renderer, ret, ids, engine>>

call_scroll ==
    /\ AtCall("scroll")
    /\ Returns("scroll", Callee, "none",
               scroll(try_hover(ui, get_id(ui, StrKey(wcfg[Callee].label)),
                                ContainsPoint(wcfg[Callee].rect, mouse.pos)),
                      mouse, keys, get_id(ui, StrKey(wcfg[Callee].label)), wcfg[Callee],
                      "none"))

InitScroll == InitScene("scroll", [w \in {"S"} |-> ScrollCfg], [w \in {"S"} |-> <<0, 0>>])

NextScroll ==
    \/ MouseEvents
    \/ KeyEvents
    \/ \E d \in {-1, 1} : mouse_wheel(d)
    \/ \E d \in {-1, 1} : mouse_wheel_x(d)
    \/ pre_update
    \/ call_scroll
    \/ post_update

SpecScroll == InitScroll /\ [][NextScroll]_vars

\* C22 (scroll offset range): the persisted scroll offset of the element is
\* within [0, content extent - viewport extent] on each axis.
C22_Range ==
    scene = "scroll"
    => \A id \in DOMAIN ui.scroll :
           /\ ui.scroll[id][1] >= 0 /\ ui.scroll[id][1] <= ScrollCfg.width - ScrollCfg.rect.w
           /\ ui.scroll[id][2] >= 0 /\ ui.scroll[id][2] <= ScrollCfg.height - ScrollCfg.rect.h

(***************************************************************************)
(* Color arithmetic (color.rs 984-1036 and 1133-1206).  A Color holds its  *)
(* mode, four levels and the four channels derived from them.  A level is  *)
(* a rational <<numerator, denominator>> with a positive denominator; the  *)
(* f64 operations of the code are exact on the operands used here.         *)
(* conversion.rs (maxes, convert_levels, calculate_channels) is not part   *)
(* of src/: the channels are the levels times 255, rounded and cast to u8. *)
(***************************************************************************)
RECURSIVE Gcd(_, _)
Gcd(p, q) == IF q = 0 THEN p ELSE Gcd(q, p % q)
Rat(num, den) == <<num \div Gcd(Abs(num) + den, den), den \div Gcd(Abs(num) + den, den)>>
rat_add(p, q) == Rat(p[1] * q[2] + q[1] * p[2], p[2] * q[2])
rat_sub(p, q) == Rat(p[1] * q[2] - q[1] * p[2], p[2] * q[2])
rat_mul(p, k) == Rat(p[1] * k, p[2])
rat_div(p, k) == Rat(p[1], p[2] * k)
\* f64::clamp(0.0, 1.0)
clamp_level(p) == IF p[1] < 0 THEN <<0, 1>> ELSE IF p[1] > p[2] THEN <<1, 1>> ELSE p
\* f64::round (half away from zero) and the saturating cast `as u8`.
round_u8(p) ==
    IF p[1] <= 0 THEN 0 ELSE Min(255, (2 * p[1] + p[2]) \div (2 * p[2]))
maxes(mode) == <<255, 255, 255, 255>>
calculate_channels(levels) == [i \in 1..4 |-> round_u8(rat_mul(levels[i], maxes("Rgb")[i]))]
\* A conversion between equal modes leaves the levels as they are.
convert_levels(levels, from, to) == CASE from = to -> levels
MakeColor(mode, levels) ==
    [mode |-> mode, levels |-> levels, channels |-> calculate_channels(levels)]
\* color.rs 214-233
with_mode_alpha(mode, v1, v2, v3, alpha) ==
    MakeColor(mode,
              convert_levels(<<clamp_level(Rat(v1, maxes(mode)[1])),
                               clamp_level(Rat(v2, maxes(mode)[2])),
                               clamp_level(Rat(v3, maxes(mode)[3])),
                               clamp_level(Rat(alpha, maxes(mode)[4]))>>, mode, "Rgb"))
\* color.rs 258-260
rgba(r, g, b, al) == with_mode_alpha("Rgb", r, g, b, al)
clamp_levels(levels) == [i \in 1..4 |-> clamp_level(levels[i])]

\* color.rs 984-996 and 998-1009
add_levels(self, other) ==
    [i \in 1..4 |-> rat_add(self.levels[i], convert_levels(other.levels, other.mode, self.mode)[i])]
add(self, other) == MakeColor(self.mode, add_levels(self, other))
add_assign(self, other) == MakeColor(self.mode, clamp_levels(add_levels(self, other)))
\* color.rs 1011-1023 and 1025-1036
sub_levels(self, other) ==
    [i \in 1..4 |-> rat_sub(self.levels[i], convert_levels(other.levels, other.mode, self.mode)[i])]
sub(self, other) == MakeColor(self.mode, sub_levels(self, other))
sub_assign(self, other) == MakeColor(self.mode, clamp_levels(sub_levels(self, other)))
\* color.rs 1136-1148, 1150-1162 and 1164-1174
mul_levels(self, k) == [i \in 1..4 |-> rat_mul(self.levels[i], k)]
mul(self, k) == MakeColor(self.mode, mul_levels(self, k))
mul_left(k, c) == MakeColor(c.mode, mul_levels(c, k))
mul_assign(self, k) == MakeColor(self.mode, clamp_levels(mul_levels(self, k)))
\* color.rs 1176-1188 and 1190-1200
div_levels(self, k) == [i \in 1..4 |-> rat_div(self.levels[i], k)]
div(self, k) == MakeColor(self.mode, div_levels(self, k))
div_assign(self, k) == MakeColor(self.mode, clamp_levels(div_levels(self, k)))

(***************************************************************************)
(* SpecArith: a program holds two colors built with color!(r, g, b, a) and *)
(* applies up to MaxOps operators to them, each result replacing the left  *)
(* operand.  The scalar is the one of test_ops (color.rs 1344).            *)
(***************************************************************************)
MaxOps == 2
TestScalar == 2
ColorOps == {"add", "add_assign", "sub", "sub_assign", "mul", "mul_left", "mul_assign",
             "div", "div_assign"}
TestColors == {rgba(r, g, b, 100) : r \in {200, 100}, g \in {50, 255}, b \in {10, 30}}

color_op(op, self, other, k) ==
    CASE op = "add" -> add(self, other)
      [] op = "add_assign" -> add_assign(self, other)
      [] op = "sub" -> sub(self, other)
      [] op = "sub_assign" -> sub_assign(self, other)
      [] op = "mul" -> mul(self, k)
      [] op = "mul_left" -> mul_left(k, self)
      [] op = "mul_assign" -> mul_assign(self, k)
      [] op = "div" -> div(self, k)
      [] op = "div_assign" -> div_assign(self, k)

\* `c1 = c1 op c2` or `c1 op= c2`, with the scalar in place of c2 for * and /.
call_color(op) ==
    /\ scene = "arith" /\ pc = "update" /\ ix <= MaxOps
    /\ value' = [value EXCEPT !["c1"] = color_op(op, value["c1"], value["c2"], TestScalar)]
    /\ ret' = [NoRet EXCEPT !.fn = op, !.value0 = <<value["c1"], value["c2"]>>]
    /\ ix' = ix + 1
    /\ UNCHANGED <<scene, pc, mouse, pmouse, keys, typed, ui, wcfg, setting_stack,
                   cursor_stack, wstack, renderer, ids, quiet, engine>>

InitArith ==
    \E c1 \in TestColors, c2 \in TestColors :
        /\ scene = "arith" /\ pc = "update" /\ ix = 1
        /\ mouse = [pos |-> Outside, pressed |-> {}, clicked |-> {}, xrel |-> 0, yrel |-> 0]
        /\ pmouse = Outside
        /\ keys = [entered |-> None, pressed |-> {}, mods_pressed |-> {}]
        /\ typed = None /\ ui = NewUi /\ wcfg = EmptyMap
        /\ value = [w \in {"c1", "c2"} |-> IF w = "c1" THEN c1 ELSE c2]
        /\ setting_stack = 0 /\ cursor_stack = 0 /\ wstack = <<>>
        /\ renderer = NewRenderer /\ ret = NoRet /\ ids = EmptyMap /\ quiet = TRUE
        /\ engine = NewEngine

NextArith == \E op \in ColorOps : call_color(op)

SpecArith == InitArith /\ [][NextArith]_vars

\* The channels the operators are said to give, from the operands' channels.
SaidChannel(op, x, y, k) ==
    CASE op \in {"add", "add_assign"} -> Min(255, x + y)
      [] op \in {"sub", "sub_assign"} -> Max(0, x - y)
      [] op \in {"mul", "mul_left", "mul_assign"} -> Min(255, x * k)
      [] op \in {"div", "div_assign"} -> (2 * x + k) \div (2 * k)
AssignForm(op) ==
    CASE op \in {"add", "add_assign"} -> "add_assign"
      [] op \in {"sub", "sub_assign"} -> "sub_assign"
      [] op \in {"mul", "mul_left", "mul_assign"} -> "mul_assign"
      [] op \in {"div", "div_assign"} -> "div_assign"

\* C23 (color arithmetic): the channels of a + b are min(255, a_i + b_i), of
\* a - b are max(0, a_i - b_i), of a * s and s * a are min(255, a_i * s), of
\* a / s are a_i / s rounded, on all four channels, and each assigning form
\* gives the channels of the non-assigning form.
C23_Arith ==
    (scene = "arith" /\ ret.fn \in ColorOps)
    => /\ \A i \in 1..4 :
              value["c1"].channels[i]
                = SaidChannel(ret.fn, ret.value0[1].channels[i], ret.value0[2].channels[i],
                              TestScalar)
       /\ value["c1"].channels
            = color_op(AssignForm(ret.fn), ret.value0[1], ret.value0[2], TestScalar).channels

(***************************************************************************)
(* SpecHandles: an application that keeps the TextureId of every texture   *)
(* it created, as pairs <<id, creation number>>, and deletes textures by   *)
(* the ids it holds.  The id create_texture returns is the index of the    *)
(* new texture in the table (sdl.rs 215).                                  *)
(***************************************************************************)
MaxHandles == 5
Held == value["held"]

app_create_texture(sdl) ==
    /\ scene = "handles" /\ pc = "update" /\ renderer.created < MaxHandles
    /\ renderer' = create_texture(renderer, sdl).renderer
    /\ value' = [value EXCEPT !["held"] =
                    IF create_texture(renderer, sdl).err = None
                      THEN @ \cup {<<Len(renderer'.textures) - 1, renderer'.created>>}
                      ELSE @]
    /\ ret' = [NoRet EXCEPT !.fn = "create_texture", !.id = Len(renderer.textures),
                            !.ok = create_texture(renderer, sdl).err = None,
                            !.fail = create_texture(renderer, sdl).err,
                            !.value0 = renderer.textures]
    /\ UNCHANGED <<scene, pc, ix, mouse, pmouse, keys, typed, ui, wcfg,
                   setting_stack, cursor_stack, wstack, ids, quiet, engine>>

app_delete_texture(h) ==
    /\ scene = "handles" /\ pc = "update" /\ h \in Held
    /\ renderer' = delete_texture(renderer, h[1]).renderer
    /\ value' = [value EXCEPT !["held"] = @ \ {h}]
    /\ ret' = [NoRet EXCEPT !.fn = "delete_texture", !.id = h[1],
                            !.ok = delete_texture(renderer, h[1]).err = None,
                            !.fail = delete_texture(renderer, h[1]).err,
                            !.value0 = renderer.textures]
    /\ UNCHANGED <<scene, pc, ix, mouse, pmouse, keys, typed, ui, wcfg,
                   setting_stack, cursor_stack, wstack, ids, quiet, engine>>

InitHandles ==
    /\ scene = "handles" /\ pc = "update" /\ ix = 1
    /\ mouse = [pos |-> Outside, pressed |-> {}, clicked |-> {}, xrel |-> 0, yrel |-> 0]
    /\ pmouse = Outside
    /\ keys = [entered |-> None, pressed |-> {}, mods_pressed |-> {}]
    /\ typed = None /\ ui = NewUi /\ wcfg = EmptyMap
    /\ value = [w \in {"held"} |-> {}]
    /\ setting_stack = 0 /\ cursor_stack = 0 /\ wstack = <<>>
    /\ renderer = NewRenderer /\ ret = NoRet /\ ids = EmptyMap /\ quiet = TRUE
    /\ engine = NewEngine

NextHandles ==
    \/ \E sdl \in BOOLEAN : app_create_texture(sdl)
    \/ \E h \in (0 .. MaxHandles) \X (1 .. MaxHandles) : app_delete_texture(h)

SpecHandles == InitHandles /\ [][NextHandles]_vars

\* C24 (texture id stability): every TextureId returned by create_texture and
\* not yet deleted still refers to the texture it was created for, and the
\* live ids are pairwise distinct.
C24_Stable ==
    scene = "handles"
    => /\ \A h \in Held : h[1] < Len(renderer.textures) /\ renderer.textures[h[1] + 1] = h[2]
       /\ \A g, h \in Held : g[1] = h[1] => g = h

(***************************************************************************)
(* The window registry of the renderer (renderer/sdl/window.rs 240-266 and *)
(* 461-476): the open windows by id, the window drawn to and the primary   *)
(* window.  `windows.keys().last()` is any of the remaining windows.       *)
(***************************************************************************)
\* window.rs 240-245
create_window(r, id, sdl) ==
    IF sdl THEN RenderResult(r, "Sdl")
    ELSE RenderResult([r EXCEPT !.windows = @ \cup {id}], None)
\* window.rs 473-476
reset_window_target(r) == [r EXCEPT !.window_target = r.primary_window_id]
\* window.rs 252-263, after the window was removed
close_window_target(r, id, last) ==
    IF id # r.window_target THEN RenderResult(r, None)
    ELSE IF id # r.primary_window_id THEN RenderResult(reset_window_target(r), None)
    ELSE IF r.windows # {}
      THEN RenderResult([r EXCEPT !.window_target = last, !.primary_window_id = last], None)
    ELSE RenderResult(r, "LastWindow")
\* window.rs 248-265
renderer_close_window(r, id, last) ==
    IF id \notin r.windows THEN RenderResult(r, "InvalidWindow")
    ELSE close_window_target([r EXCEPT !.windows = @ \ {id}], id, last)
\* window.rs 462-470
set_window_target(r, id) ==
    IF id \in r.windows THEN RenderResult([r EXCEPT !.window_target = id], None)
    ELSE RenderResult(r, "InvalidWindow")

(***************************************************************************)
(* SpecWindows: an application with one primary window that opens up to    *)
(* MaxWin windows in all, and closes and targets windows by any id.        *)
(***************************************************************************)
MaxWin == 3
WindowOps == {"create_window", "close_window", "set_window_target", "reset_window_target"}
window_op(op, r, id, last, sdl) ==
    CASE op = "create_window" -> create_window(r, id, sdl)
      [] op = "close_window" -> renderer_close_window(r, id, last)
      [] op = "set_window_target" -> set_window_target(r, id)
      [] op = "reset_window_target" -> RenderResult(reset_window_target(r), None)

\* One call on the registry; create_window takes no id and opens the next
\* window the system numbers; ix counts the windows opened so far.
call_window(op, id, last, sdl) ==
    /\ scene = "registry" /\ pc = "update"
    /\ op = "create_window" => (id = ix + 1 /\ ix < MaxWin)
    /\ op # "create_window" => ~sdl
    /\ last \in renderer.windows \ {id} \/ (renderer.windows \ {id} = {} /\ last = id)
    /\ renderer' = window_op(op, renderer, id, last, sdl).renderer
    /\ ix' = IF op = "create_window" /\ ~sdl THEN ix + 1 ELSE ix
    /\ ret' = [NoRet EXCEPT !.fn = op, !.id = id,
                            !.ok = window_op(op, renderer, id, last, sdl).err = None,
                            !.fail = window_op(op, renderer, id, last, sdl).err,
                            !.value0 = renderer.windows]
    /\ UNCHANGED <<scene, pc, mouse, pmouse, keys, typed, ui, wcfg, value,
                   setting_stack, cursor_stack, wstack, ids, quiet, engine>>

InitWindows ==
    /\ scene = "registry" /\ pc = "update" /\ ix = 1
    /\ mouse = [pos |-> Outside, pressed |-> {}, clicked |-> {}, xrel |-> 0, yrel |-> 0]
    /\ pmouse = Outside
    /\ keys = [entered |-> None, pressed |-> {}, mods_pressed |-> {}]
    /\ typed = None /\ ui = NewUi /\ wcfg = EmptyMap /\ value = EmptyMap
    /\ setting_stack = 0 /\ cursor_stack = 0 /\ wstack = <<>>
    /\ renderer = [NewRenderer EXCEPT !.windows = {1}]
    /\ ret = NoRet /\ ids = EmptyMap /\ quiet = TRUE /\ engine = NewEngine

NextWindows ==
    \E op \in WindowOps, id \in 1 .. MaxWin, last \in 1 .. MaxWin, sdl \in BOOLEAN :
        call_window(op, id, last, sdl)

SpecWindows == InitWindows /\ [][NextWindows]_vars

\* C25 (window registry validity): after any sequence of create_window,
\* close_window, set_window_target and reset_window_target calls, those that
\* return an error included, primary_window_id and window_target refer to
\* windows that are open.
C25_Open ==
    scene = "registry"
    => /\ renderer.primary_window_id \in renderer.windows
       /\ renderer.window_target \in renderer.windows

(***************************************************************************)
(* SpecSelect: a select list of 0..MaxItems items, the bound selection     *)
(* starting as None or as the index of an item.                            *)
(***************************************************************************)
MaxItems == 2
InitSelect ==
    \E n \in 0 .. MaxItems :
        \E sel \in {<<>>} \cup {<<i>> : i \in 0 .. n - 1} :
            InitScene("list", [w \in {"L"} |-> ListCfg(<<>>, <<0, 0>>, n)],
                      [w \in {"L"} |-> sel])

SpecSelect == InitSelect /\ [][NextRows]_vars

\* The last select_list call stopped in the subtraction of list.rs 152.
Underflowed == Returned("select_list") /\ ~ret.ok /\ ret.fail = "none"

\* C26 (selection stays in range): after any select_list call the selection
\* is None or an index smaller than items.len(), and computing it never
\* underflows an unsigned index.
C26_InRange ==
    (scene = "list" /\ Returned("select_list"))
    => /\ RetValue = <<>> \/ (RetValue[1] >= 0 /\ RetValue[1] < RetCfg.n)
       /\ ~Underflowed

(***************************************************************************)
(* fill_triangle (state/draw.rs 415-492).  The vertices are a tuple        *)
(* <<x1, y1, x2, y2, x3, y3>>; the result is the horizontal lines drawn,   *)
(* <<a, y, b>> each, and whether a division by zero stopped the call.      *)
(***************************************************************************)
Drawn(lines, panic) == [lines |-> lines, panic |-> panic]
swap12(v) == <<v[3], v[4], v[1], v[2], v[5], v[6]>>
swap23(v) == <<v[1], v[2], v[5], v[6], v[3], v[4]>>
\* draw.rs 427-439
sort12(v) == IF v[2] > v[4] THEN swap12(v) ELSE v
sort23(v) == IF v[4] > v[6] THEN swap23(v) ELSE v
sort_by_y(v) == sort12(sort23(sort12(v)))
\* draw.rs 441-455: all three vertices on one row.
flat_line(v) ==
    <<Min(v[1], Min(v[3], v[5])), v[2], Max(v[1], Max(v[3], v[5]))>>
\* draw.rs 465-469
tri_last(v) == IF v[4] = v[6] THEN v[4] ELSE v[4] - 1
\* draw.rs 472-479: the rows y1..=last, between the edges 1-2 and 1-3.
RECURSIVE tri_upper(_, _, _, _, _, _)
tri_upper(v, i, last, sa, sb, acc) ==
    IF i > last THEN acc
    ELSE IF v[4] - v[2] = 0 \/ v[6] - v[2] = 0 THEN Drawn(acc.lines, TRUE)
    ELSE tri_upper(v, i + 1, last, sa + (v[3] - v[1]), sb + (v[5] - v[1]),
                   Drawn(Append(acc.lines, <<v[1] + TruncDiv(sa, v[4] - v[2]), i,
                                              v[1] + TruncDiv(sb, v[6] - v[2])>>), FALSE))
\* draw.rs 471-472 and 474: y after the first loop is the last row it drew.
tri_y(v) == IF v[2] <= tri_last(v) THEN tri_last(v) ELSE v[2]
\* draw.rs 483-490: the rows y..=y3, between the edges 2-3 and 1-3.
RECURSIVE tri_lower(_, _, _, _, _)
tri_lower(v, i, sa, sb, acc) ==
    IF acc.panic \/ i > v[6] THEN acc
    ELSE IF v[6] - v[4] = 0 \/ v[6] - v[2] = 0 THEN Drawn(acc.lines, TRUE)
    ELSE tri_lower(v, i + 1, sa + (v[5] - v[3]), sb + (v[5] - v[1]),
                   Drawn(Append(acc.lines, <<v[3] + TruncDiv(sa, v[6] - v[4]), i,
                                              v[1] + TruncDiv(sb, v[6] - v[2])>>), FALSE))
\* draw.rs 441-491, on sorted vertices
fill_sorted(v) ==
    IF v[2] = v[6] THEN Drawn(<<flat_line(v)>>, FALSE)
    ELSE tri_lower(v, tri_y(v), (v[5] - v[3]) * (tri_y(v) - v[4]),
                   (v[5] - v[1]) * (tri_y(v) - v[2]),
                   tri_upper(v, v[2], tri_last(v), 0, 0, Drawn(<<>>, FALSE)))
fill_triangle(v) == fill_sorted(sort_by_y(v))

(***************************************************************************)
(* SpecTriangle: one fill_triangle call with vertices on a small grid.     *)
(***************************************************************************)
MaxCoord == 2
Vertices == [1..6 -> 0 .. MaxCoord]

call_fill_triangle(v) ==
    /\ scene = "triangle" /\ pc = "update"
    /\ pc' = IF fill_triangle(v).panic THEN "stopped" ELSE "drawn"
    /\ ret' = [NoRet EXCEPT !.fn = "fill_triangle", !.value0 = v,
                            !.ok = ~fill_triangle(v).panic,
                            !.shown = fill_triangle(v).lines]
    /\ UNCHANGED <<scene, ix, mouse, pmouse, keys, typed, ui, wcfg, value,
                   setting_stack, cursor_stack, wstack, renderer, ids, quiet, engine>>

InitTriangle ==
    /\ scene = "triangle" /\ pc = "update" /\ ix = 1
    /\ mouse = [pos |-> Outside, pressed |-> {}, clicked |-> {}, xrel |-> 0, yrel |-> 0]
    /\ pmouse = Outside
    /\ keys = [entered |-> None, pressed |-> {}, mods_pressed |-> {}]
    /\ typed = None /\ ui = NewUi /\ wcfg = EmptyMap /\ value = EmptyMap
    /\ setting_stack = 0 /\ cursor_stack = 0 /\ wstack = <<>>
    /\ renderer = NewRenderer /\ ret = NoRet /\ ids = EmptyMap /\ quiet = TRUE
    /\ engine = NewEngine

NextTriangle == \E v \in Vertices : call_fill_triangle(v)

SpecTriangle == InitTriangle /\ [][NextTriangle]_vars

\* C27 (fill_triangle is total): for every triple of integer vertices, flat
\* and degenerate triangles included, fill_triangle completes without
\* dividing by zero.
C27_Total == (scene = "triangle" /\ Returned("fill_triangle")) => ret.ok

(***************************************************************************)
(* SpecKeys: press and release events on a KeyState (keys.rs 14-53), in    *)
(* any order.  Beside the KeyState the pairs <<key, modifier>> of the      *)
(* press events of the keys that were not released since are recorded.     *)
(***************************************************************************)
HeldKeys == {"A", "B"}
HeldMods == {"NONE", "SHIFT", "CTRL"}
HeldWith == value["held"]

event_press(key, keymod) ==
    /\ scene = "keys" /\ pc = "events"
    /\ keys' = press(keys, key, keymod)
    /\ value' = [value EXCEPT !["held"] = @ \cup {<<key, keymod>>}]
    /\ ret' = [NoRet EXCEPT !.fn = "press"]
    /\ UNCHANGED <<scene, pc, ix, mouse, pmouse, typed, ui, wcfg, setting_stack,
                   cursor_stack, wstack, renderer, ids, quiet, engine>>

event_release(key, keymod) ==
    /\ scene = "keys" /\ pc = "events"
    /\ keys' = release(keys, key, keymod)
    /\ value' = [value EXCEPT !["held"] = {h \in @ : h[1] # key}]
    /\ ret' = [NoRet EXCEPT !.fn = "release"]
    /\ UNCHANGED <<scene, pc, ix, mouse, pmouse, typed, ui, wcfg, setting_stack,
                   cursor_stack, wstack, renderer, ids, quiet, engine>>

InitKeys ==
    /\ scene = "keys" /\ pc = "events" /\ ix = 1
    /\ mouse = [pos |-> Outside, pressed |-> {}, clicked |-> {}, xrel |-> 0, yrel |-> 0]
    /\ pmouse = Outside
    /\ keys = [entered |-> None, pressed |-> {}, mods_pressed |-> {}]
    /\ typed = None /\ ui = NewUi /\ wcfg = EmptyMap
    /\ value = [w \in {"held"} |-> {}]
    /\ setting_stack = 0 /\ cursor_stack = 0 /\ wstack = <<>>
    /\ renderer = NewRenderer /\ ret = NoRet /\ ids = EmptyMap /\ quiet = TRUE
    /\ engine = NewEngine

NextKeys ==
    \/ \E key \in HeldKeys, keymod \in HeldMods : event_press(key, keymod)
    \/ \E key \in HeldKeys, keymod \in HeldMods : event_release(key, keymod)

SpecKeys == InitKeys /\ [][NextKeys]_vars

\* C28 (key state consistency): is_down(k) holds exactly when k was pressed
\* and not released since, and mod_down(m) holds exactly when at least one
\* currently held key was pressed with modifier m.
C28_Keys ==
    scene = "keys"
    => /\ \A key \in HeldKeys : is_down(keys, key) <=> (\E h \in HeldWith : h[1] = key)
       /\ \A keymod \in HeldMods : mod_down(keys, keymod) <=> (\E h \in HeldWith : h[2] = keymod)

(***************************************************************************)
(* SpecDrag: drag(label, &mut value, 1) on an integer TBits wide, called   *)
(* every frame, the value starting next to a bound of the type.            *)
(***************************************************************************)
DragCfg == Cfg("drag", LabelA, "int", TMin, TMax, 1, <<0, 0>>, TrackW, NoRect, 0, 0)
InitDrag ==
    \E v0 \in {TMin + 1, TMax - 1} :
        InitScene("drag", [w \in {"S"} |-> DragCfg], [w \in {"S"} |-> <<v0>>])

NextDrag ==
    \/ MouseEvents
    \/ KeyEvents
    \/ pre_update
    \/ call_drag
    \/ post_update

SpecDrag == InitDrag /\ [][NextDrag]_vars

\* The state right after a drag call: the input is still that of the call.
DragReturned == scene = "drag" /\ Returned("advanced_drag") /\ ix = 2 /\ pc # "events"
\* value + dx * speed, dx scaled by the modifier held.
DragSum == ret.value0[1] + drag_delta(keys, mouse.pos[1] - pmouse[1]) * RetCfg.speed

\* C29 (drag arithmetic): an active drag sets the value to
\* clamp(value + dx * speed, min, max), dx being the mouse x movement since
\* the previous frame times 10 with SHIFT or divided by 100 with ALT, and
\* returns true iff the value changed; with min = T::MIN and max = T::MAX the
\* result saturates at the bounds of the type; a drag that is not active
\* leaves the value and returns false.
C29_Drag ==
    DragReturned
    => /\ ret.ok
       /\ ret.changed <=> (RetValue # ret.value0)
       /\ is_active(ret.ui0, ret.id) => RetValue[1] = Clamp(DragSum, RetCfg.min, RetCfg.max)
       /\ ~is_active(ret.ui0, ret.id) => RetValue = ret.value0

(***************************************************************************)
(* SpecIds: two select lists with different labels, called every frame at  *)
(* the same rectangle; between frames the application may move a list down *)
(* by one pixel, up to MaxMove times.                                      *)
(***************************************************************************)
MaxMove == 1
move_widget(w) ==
    /\ scene = "lists" /\ pc = "events"
    /\ wcfg[w].rect.y < MaxMove
    /\ wcfg' = [wcfg EXCEPT ![w].rect.y = @ + 1, ![w].pos = <<@[1], @[2] + 1>>]
    /\ quiet' = FALSE
    /\ UNCHANGED <<scene, pc, ix, mouse, pmouse, keys, typed, ui, value, setting_stack,
                   cursor_stack, wstack, renderer, ret, ids, engine>>

InitIds ==
    InitScene("lists",
              [w \in {"L", "M"} |-> ListCfg(IF w = "L" THEN LabelA ELSE LabelB, <<0, 0>>, 1)],
              [w \in {"L", "M"} |-> <<>>])

NextIds ==
    \/ MouseEvents
    \/ KeyEvents
    \/ \E w \in {"L", "M"} : move_widget(w)
    \/ pre_update
    \/ call_list
    \/ post_update

SpecIds == InitIds /\ [][NextIds]_vars

\* C30 (id from label): a select list derives its ElementId from its label
\* and the id stack, so two lists with different labels never have the same
\* id, and so never share hover, active, focus or scroll state, even when
\* drawn at the same rectangle, and a list keeps its id when its rectangle
\* changes between frames.
C30_Label ==
    scene = "lists"
    => /\ \A w \in DOMAIN ids : ids[w].id = get_id([id_stack |-> ids[w].stack], StrKey(wcfg[w].label))
       /\ \A w1, w2 \in DOMAIN ids :
              wcfg[w1].label # wcfg[w2].label => ids[w1].id # ids[w2].id

====
